---- MODULE Spec2Model ----
(***************************************************************************)
(* Reactive core of vue-2.6 (observer/index.js, observer/array.js,         *)
(* observer/dep.js, observer/watcher.js) as a state machine.               *)
(*                                                                         *)
(* JavaScript runs one call stack.  The stack is the variable `frames`:    *)
(* a running getter (Watcher.get), a running watcher callback and a        *)
(* running Dep.notify loop each own a frame.  User code (the body of a     *)
(* getter or of a callback, or a script at top level) is the environment:  *)
(* it picks its next statement among the operations of the public API.     *)
(***************************************************************************)
EXTENDS Integers, Sequences, FiniteSets, TLC

VARIABLES
    heap,         \* objects: own keys, values, __ob__, reactive accessors
    depUid,       \* dep.js `uid`: id of the next Dep
    subs,         \* Dep.subs, by Dep id
    uid,          \* watcher.js `uid`: id of the last Watcher
    watchers,     \* the Watcher instances, by id
    vm,           \* the owning component: _watchers, _isBeingDestroyed
    target,       \* Dep.target
    targetStack,  \* dep.js targetStack
    frames,       \* the call stack
    sched,        \* scheduler: queue, has, waiting, flushing, index
    hist,         \* history variables (what happened, for the properties)
    config,       \* Vue.config.async, and the build (process.env.NODE_ENV)
    vdom          \* the patch (vdom/patch.js): its arguments, locals, output

vars == <<heap, depUid, subs, uid, watchers, vm, target, targetStack,
          frames, sched, hist, config, vdom>>

-----------------------------------------------------------------------------
(* Bounds of the model.                                                    *)

MaxReads == 2   \* property reads by one getter invocation
MaxOps   == 2   \* writes by user code from one flush to the next
MaxDeps  == 6   \* Dep instances allocated in one run
MaxLen   == 2   \* elements of an array
MaxCh    == 3   \* children of one node, old or new
MaxPerm  == 4   \* children of one node when the new ones are a permutation

WIds == {1, 2}  \* the ids of the watchers constructed in one run

-----------------------------------------------------------------------------
(* Values.  Primitives are tokens; an object value is the object's name   *)
(* (its reference).  NaN is the one value that is not === to itself.       *)

PlainObjs == {"o", "p"}
Arrays    == {"arr"}
Objs      == PlainObjs \cup Arrays
Keys      == {"a", "b", "k"}
Undef     == "undefined"
Prims     == {"v0", "v1", "NaN", Undef}
Vals      == Prims \cup Objs

NoTarget == 0        \* Dep.target = null, its value when dep.js is loaded
UndefTarget == 0 - 2 \* Dep.target = undefined: the top of an empty targetStack
NoDep    == 0 - 1    \* no Dep (an object without __ob__)
NoOb     == "none"   \* childOb is undefined

\* if (Dep.target): null and undefined are both falsy
HasTarget(S) == S.target \notin {NoTarget, UndefTarget}

isObject(v) == v \in Objs
IsArray(v)  == v \in Arrays
StrictEq(x, y) == x = y /\ x # "NaN"

SeqToSet(s) == {s[i] : i \in 1..Len(s)}

\* util remove(arr, item): splice out the first occurrence
remove(arr, item) ==
    IF \E i \in 1..Len(arr) : arr[i] = item
    THEN LET i == CHOOSE j \in 1..Len(arr) :
                    arr[j] = item /\ \A l \in 1..(j-1) : arr[l] # item
         IN  SubSeq(arr, 1, i-1) \o SubSeq(arr, i+1, Len(arr))
    ELSE arr

hasOwn(S, obj, key) == key \in DOMAIN S.heap.props[obj]

hasOb(S, v) == isObject(v) /\ S.heap.ob[v].dep # NoDep

IsReactive(S, obj, key) == key \in DOMAIN S.heap.rdep[obj]

\* the property had a getter and no setter when it was made reactive
GetterOnly(S, obj, key) == key \in S.heap.getters[obj]

\* obj[key] for a plain object, undefined when the key is absent
GetProp(S, obj, key) ==
    IF hasOwn(S, obj, key) THEN S.heap.props[obj][key] ELSE Undef

-----------------------------------------------------------------------------
(* observe / Observer / defineReactive.  S is the whole state as a record; *)
(* the operators return the state after the call.                          *)

RECURSIVE observe(_, _, _), ObserverNew(_, _), walk(_, _, _),
          observeArray(_, _), defineReactive(_, _, _, _)

\* new Dep(): this.id = uid++; this.subs = []
NewDep(S) == [S EXCEPT !.depUid = @ + 1, !.subs[S.depUid] = <<>>]

\* defineReactive(obj, key, val): a Dep of its own, childOb = observe(val),
\* and the accessor pair (rdep/childOb hold what the closures capture).  Of
\* a property with a getter and no setter val stays undefined; what its
\* getter returns is kept in props
defineReactive(S, obj, key, val) ==
    LET dep == S.depUid
        S1  == NewDep(S)
        v   == IF GetterOnly(S, obj, key) THEN Undef ELSE val
        S2  == observe(S1, v, FALSE)
        cob == IF hasOb(S2, v) THEN v ELSE NoOb
        h   == S2.heap
    IN  [S2 EXCEPT !.heap =
            [h EXCEPT
                !.okeys[obj]   = IF key \in DOMAIN h.props[obj]
                                 THEN @ ELSE Append(@, key),
                !.props[obj]   = [x \in DOMAIN @ \cup {key} |->
                                      IF x = key THEN val ELSE @[x]],
                !.rdep[obj]    = [x \in DOMAIN @ \cup {key} |->
                                      IF x = key THEN dep ELSE @[x]],
                !.childOb[obj] = [x \in DOMAIN @ \cup {key} |->
                                      IF x = key THEN cob ELSE @[x]]]]

\* Observer.walk: defineReactive(obj, keys[i]) for the keys from i on
walk(S, obj, ks) ==
    IF ks = <<>> THEN S
    ELSE walk(defineReactive(S, obj, Head(ks), S.heap.props[obj][Head(ks)]),
              obj, Tail(ks))

\* Observer.observeArray
observeArray(S, its) ==
    IF its = <<>> THEN S
    ELSE observeArray(observe(S, Head(its), FALSE), Tail(its))

\* new Observer(value): dep = new Dep(), vmCount = 0, value.__ob__ = this,
\* then the elements (array) or the keys (object)
ObserverNew(S, value) ==
    LET S1 == NewDep(S)
        S2 == [S1 EXCEPT !.heap.ob[value] = [dep |-> S.depUid, vmCount |-> 0]]
    IN  IF IsArray(value)
        THEN observeArray(S2, S2.heap.items[value])
        ELSE walk(S2, value, S2.heap.okeys[value])

observe(S, value, asRootData) ==
    IF ~isObject(value) THEN S
    ELSE LET S1 == IF hasOb(S, value) THEN S ELSE ObserverNew(S, value)
         IN  IF asRootData
             THEN [S1 EXCEPT !.heap.ob[value].vmCount = @ + 1]
             ELSE S1

-----------------------------------------------------------------------------
(* Dep (dep.js) and the dependency bookkeeping of Watcher.                 *)

\* Dep.addSub: this.subs.push(sub)
addSub(S, d, w) == [S EXCEPT !.subs[d] = Append(@, w)]

\* Dep.removeSub: remove(this.subs, sub)
removeSub(S, d, w) == [S EXCEPT !.subs[d] = remove(@, w)]

\* addDep that subscribes whenever the Dep is new to this evaluation
addDepNoIdCheck(S, w, d) ==
    IF d \notin S.watchers[w].newDepIds
    THEN addSub([S EXCEPT !.watchers[w].newDepIds = @ \cup {d},
                          !.watchers[w].newDeps   = Append(@, d)], d, w)
    ELSE S

\* Watcher.addDep
addDep(S, w, d) ==
    IF d \notin S.watchers[w].newDepIds
    THEN LET S1 == [S EXCEPT !.watchers[w].newDepIds = @ \cup {d},
                             !.watchers[w].newDeps   = Append(@, d)]
         IN  IF d \notin S.watchers[w].depIds THEN addSub(S1, d, w) ELSE S1
    ELSE S

\* Dep.depend: if (Dep.target) Dep.target.addDep(this).  hist.touching
\* records the call itself: the Deps whose depend() ran for the target.
DepDepend(S, d) ==
    IF HasTarget(S)
    THEN addDep([S EXCEPT !.hist.touching[S.target] = @ \cup {d}], S.target, d)
    ELSE S

RECURSIVE dependArray(_, _), DependAll(_, _), RemoveStale(_, _, _),
          RemoveAll(_, _, _)

\* dependArray(value): e.__ob__.dep.depend() for every element, nested arrays too
dependArray(S, its) ==
    IF its = <<>> THEN S
    ELSE LET e  == Head(its)
             S1 == IF hasOb(S, e) THEN DepDepend(S, S.heap.ob[e].dep) ELSE S
             S2 == IF IsArray(e) THEN dependArray(S1, S1.heap.items[e]) ELSE S1
         IN  dependArray(S2, Tail(its))

\* reactiveGetter of obj[key]; a key without accessor is a plain read
reactiveGetter(S, obj, key) ==
    IF IsReactive(S, obj, key) /\ HasTarget(S)
    THEN LET value == S.heap.props[obj][key]
             cob   == S.heap.childOb[obj][key]
             S1    == DepDepend(S, S.heap.rdep[obj][key])
         IN  IF cob # NoOb
             THEN LET S2 == DepDepend(S1, S1.heap.ob[cob].dep)
                  IN  IF IsArray(value)
                      THEN dependArray(S2, S2.heap.items[value])
                      ELSE S2
             ELSE S1
    ELSE S

\* the loop of Watcher.cleanupDeps: i = deps.length; while (i--) ...
RemoveStale(S, w, i) ==
    IF i = 0 THEN S
    ELSE LET d == S.watchers[w].deps[i]
         IN  RemoveStale(IF d \notin S.watchers[w].newDepIds
                         THEN removeSub(S, d, w) ELSE S, w, i - 1)

\* cleanupDeps that leaves newDepIds as it is
cleanupDepsNoClear(S, w) ==
    LET S1 == RemoveStale(S, w, Len(S.watchers[w].deps))
    IN  [S1 EXCEPT !.watchers[w].depIds = S1.watchers[w].newDepIds,
                   !.watchers[w].deps   = S1.watchers[w].newDeps,
                   !.watchers[w].newDeps = <<>>]

\* cleanupDeps that swaps the collections and unsubscribes from nothing
cleanupDepsKeep(S, w) ==
    [S EXCEPT !.watchers[w].depIds    = S.watchers[w].newDepIds,
              !.watchers[w].newDepIds = {},
              !.watchers[w].deps      = S.watchers[w].newDeps,
              !.watchers[w].newDeps   = <<>>]

\* Watcher.cleanupDeps: unsubscribe the stale deps, then swap the new
\* collections in and clear the old ones
cleanupDeps(S, w) ==
    LET S1 == RemoveStale(S, w, Len(S.watchers[w].deps))
    IN  [S1 EXCEPT !.watchers[w].depIds    = S1.watchers[w].newDepIds,
                   !.watchers[w].newDepIds = {},
                   !.watchers[w].deps      = S1.watchers[w].newDeps,
                   !.watchers[w].newDeps   = <<>>]

\* the loop of Watcher.depend: i = deps.length; while (i--) deps[i].depend()
DependAll(S, ds) ==
    IF ds = <<>> THEN S
    ELSE DependAll(DepDepend(S, ds[Len(ds)]), SubSeq(ds, 1, Len(ds) - 1))

\* Watcher.depend
WatcherDepend(S, w) == DependAll(S, S.watchers[w].deps)

\* the loop of Watcher.teardown
RemoveAll(S, w, i) ==
    IF i = 0 THEN S
    ELSE RemoveAll(removeSub(S, S.watchers[w].deps[i], w), w, i - 1)

\* teardown without the test of this.active
teardownAlways(S, w) ==
    LET S1 == IF ~S.vm._isBeingDestroyed
              THEN [S EXCEPT !.vm._watchers = remove(@, w)]
              ELSE S
        S2 == RemoveAll(S1, w, Len(S1.watchers[w].deps))
    IN  [S2 EXCEPT !.watchers[w].active = FALSE]

\* Watcher.teardown
teardown(S, w) ==
    IF S.watchers[w].active
    THEN LET S1 == IF ~S.vm._isBeingDestroyed
                   THEN [S EXCEPT !.vm._watchers = remove(@, w)]
                   ELSE S
             S2 == RemoveAll(S1, w, Len(S1.watchers[w].deps))
         IN  [S2 EXCEPT !.watchers[w].active = FALSE]
    ELSE S

\* pushTarget(target): targetStack.push(target); Dep.target = target
pushTarget(S, t) ==
    [S EXCEPT !.targetStack = Append(@, t), !.target = t]

\* popTarget that pops the stack and leaves Dep.target as it is
popTargetKeep(S) ==
    [S EXCEPT !.targetStack = SubSeq(@, 1, Len(@) - 1)]

\* popTarget(): targetStack.pop(); Dep.target = targetStack[length - 1],
\* which is undefined once the stack is empty
popTarget(S) ==
    LET st == SubSeq(S.targetStack, 1, Len(S.targetStack) - 1)
    IN  [S EXCEPT !.targetStack = st,
                  !.target = IF st = <<>> THEN UndefTarget ELSE st[Len(st)]]

-----------------------------------------------------------------------------
(* traverse.js: touch every nested property of a deep watcher's value.     *)
(* R = [S |-> state, seen |-> seenObjects].                                *)

RECURSIVE traverseRec(_, _), TraverseItems(_, _, _), TraverseKeys(_, _, _)

\* _traverse(val, seen)
traverseRec(R, val) ==
    IF ~isObject(val) THEN R
    ELSE IF hasOb(R.S, val) /\ R.S.heap.ob[val].dep \in R.seen THEN R
    ELSE LET R1 == IF hasOb(R.S, val)
                   THEN [R EXCEPT !.seen = @ \cup {R.S.heap.ob[val].dep}]
                   ELSE R
         IN  IF IsArray(val)
             THEN TraverseItems(R1, val, Len(R1.S.heap.items[val]))
             ELSE TraverseKeys(R1, val, Len(R1.S.heap.okeys[val]))

\* i = val.length; while (i--) _traverse(val[i], seen)
TraverseItems(R, arr, i) ==
    IF i = 0 THEN R
    ELSE TraverseItems(traverseRec(R, R.S.heap.items[arr][i]), arr, i - 1)

\* i = keys.length; while (i--) _traverse(val[keys[i]], seen): val[key] runs
\* the reactive getter
TraverseKeys(R, obj, i) ==
    IF i = 0 THEN R
    ELSE LET key == R.S.heap.okeys[obj][i]
             v   == R.S.heap.props[obj][key]
             R1  == [R EXCEPT !.S = reactiveGetter(R.S, obj, key)]
         IN  TraverseKeys(traverseRec(R1, v), obj, i - 1)

\* traverse(val): _traverse(val, seenObjects); seenObjects.clear()
traverse(S, val) == traverseRec([S |-> S, seen |-> {}], val).S

-----------------------------------------------------------------------------
(* The call stack.  A frame is a running getter ("get"), a running user    *)
(* callback ("cb") or a running Dep.notify loop ("notify").  t0 and d0 of  *)
(* a "get" frame record Dep.target and the depth of targetStack when get() *)
(* was entered, called of a "notify" frame the watchers whose update() the *)
(* loop has called.                                                        *)

GetFrame(w, cont) ==
    [k |-> "get", w |-> w, cont |-> cont, val |-> Undef, n |-> 0,
     dep |-> NoDep, snap |-> <<>>, i |-> 0,
     t0 |-> NoTarget, d0 |-> 0, called |-> <<>>]

CbFrame(w) ==
    [k |-> "cb", w |-> w, cont |-> "cb", val |-> Undef, n |-> 0,
     dep |-> NoDep, snap |-> <<>>, i |-> 0,
     t0 |-> NoTarget, d0 |-> 0, called |-> <<>>]

NotifyFrame(d, snap) ==
    [k |-> "notify", w |-> NoTarget, cont |-> "notify", val |-> Undef, n |-> 0,
     dep |-> d, snap |-> snap, i |-> 1,
     t0 |-> NoTarget, d0 |-> 0, called |-> <<>>]

Top(S) == S.frames[Len(S.frames)]
Pop(S) == [S EXCEPT !.frames = SubSeq(@, 1, Len(@) - 1)]
Push(S, f) == [S EXCEPT !.frames = Append(@, f)]

\* where user code is running: "top" (a script), "get", "cb"; "notify" and
\* "flush" are the library's own loops
Ctx(S) ==
    IF S.frames = <<>>
    THEN IF S.sched.flushing THEN "flush" ELSE "top"
    ELSE Top(S).k

OnStack(S, w) == \E i \in 1..Len(S.frames) : S.frames[i].k = "get" /\ S.frames[i].w = w

\* the value an expression evaluated to, handed to the getter that asked
Deliver(S, v) ==
    IF S.frames # <<>> /\ Top(S).k = "get"
    THEN [S EXCEPT !.frames[Len(S.frames)].val = v]
    ELSE S

-----------------------------------------------------------------------------
(* Scheduler (observer/scheduler.js is not among the sources: modelled     *)
(* from the specification, sections 4.5 and 5).                            *)

RECURSIVE SortById(_)

\* the queue as it is
KeepOrder(q) == q

SortById(q) ==
    IF q = <<>> THEN <<>>
    ELSE LET m == CHOOSE x \in SeqToSet(q) : \A y \in SeqToSet(q) : x <= y
         IN  <<m>> \o SortById(remove(q, m))

\* queueWatcher: a node already queued is not queued again; a node queued
\* during a flush is appended and runs in the same flush
queueWatcher(S, w) ==
    IF w \in S.sched.has THEN S
    ELSE [S EXCEPT !.sched.has = @ \cup {w},
                   !.sched.queue = Append(@, w),
                   !.sched.waiting = TRUE]

-----------------------------------------------------------------------------
(* Watcher: get, run, update, evaluate.                                    *)

\* Watcher.get up to the call of the getter: pushTarget(this)
GetBegin(S, w, cont) ==
    LET S1 == pushTarget(S, w)
    IN  Push([S1 EXCEPT !.hist.touching[w] = {},
                        !.hist.lz[w] = IF cont = "evaluate" THEN "call" ELSE @],
             [GetFrame(w, cont) EXCEPT !.t0 = S.target,
                                       !.d0 = Len(S.targetStack)])

\* run without the test of this.active
runAlways(S, w) == GetBegin(S, w, "run")

\* Watcher.run: if (this.active) { const value = this.get() ...
run(S, w) ==
    IF S.watchers[w].active
    THEN GetBegin(S, w, "run")
    ELSE S

\* the call w.update() as the history records it
Updated(S, w) ==
    IF S.sched.flushing
    THEN [S EXCEPT !.hist.late = @ \cup {w}]
    ELSE [S EXCEPT !.hist.upd[w] = IF @ < 2 THEN @ + 1 ELSE @]

\* update that tests `sync` before `lazy`
updateSyncFirst(S, w) ==
    LET S0 == Updated(S, w)
    IN  IF S0.watchers[w].sync THEN run(S0, w)
        ELSE IF S0.watchers[w].lazy
        THEN [S0 EXCEPT !.watchers[w].dirty = TRUE]
        ELSE queueWatcher(S0, w)

\* update with the test of `sync` inverted
updateInverted(S, w) ==
    LET S0 == Updated(S, w)
    IN  IF S0.watchers[w].lazy
        THEN [S0 EXCEPT !.watchers[w].dirty = TRUE]
        ELSE IF ~S0.watchers[w].sync THEN run(S0, w)
        ELSE queueWatcher(S0, w)

\* Watcher.update
update(S, w) ==
    LET S0 == Updated(S, w)
    IN  IF S0.watchers[w].lazy
        THEN [S0 EXCEPT !.watchers[w].dirty = TRUE,
                        !.hist.lz[w] = IF @ \in {"call", "during"}
                                       THEN "during" ELSE "upd"]
        ELSE IF S0.watchers[w].sync THEN run(S0, w)
        ELSE queueWatcher(S0, w)

\* notify that never sorts its copy
notifyUnsorted(S, d) == Push(S, NotifyFrame(d, S.subs[d]))

\* Dep.notify: const subs = this.subs.slice(), sorted by id in a development
\* build when config.async is false; then the loop, one subscriber per step
\* (NotifyStep)
notify(S, d) ==
    Push(S, NotifyFrame(d, IF ~S.config.production /\ ~S.config.async
                           THEN SortById(S.subs[d])
                           ELSE S.subs[d]))

\* the rest of run that compares the values only
RunRestValueOnly(S, w, value) ==
    IF ~StrictEq(value, S.watchers[w].value)
    THEN LET oldValue == S.watchers[w].value
             S1 == [S EXCEPT !.watchers[w].value = value,
                             !.hist.cbLog = Append(@, <<w, value, oldValue>>),
                             !.hist.cbTorn = IF S.watchers[w].active
                                             THEN @ ELSE @ \cup {w}]
         IN  IF S1.watchers[w].user THEN Push(S1, CbFrame(w)) ELSE S1
    ELSE S

\* the rest of run that invokes the callback whatever the values are
RunRestAlways(S, w, value) ==
    LET oldValue == S.watchers[w].value
        S1 == [S EXCEPT !.watchers[w].value = value,
                        !.hist.cbLog = Append(@, <<w, value, oldValue>>),
                        !.hist.cbTorn = IF S.watchers[w].active
                                        THEN @ ELSE @ \cup {w}]
    IN  IF S1.watchers[w].user THEN Push(S1, CbFrame(w)) ELSE S1

\* the rest of Watcher.run once get() has returned `value`
RunRest(S, w, value) ==
    IF ~StrictEq(value, S.watchers[w].value) \/ isObject(value)
          \/ S.watchers[w].deep
    THEN LET oldValue == S.watchers[w].value
             S1 == [S EXCEPT !.watchers[w].value = value,
                             !.hist.cbLog = Append(@, <<w, value, oldValue>>),
                             !.hist.cbTorn = IF S.watchers[w].active
                                             THEN @ ELSE @ \cup {w}]
         IN  IF S1.watchers[w].user THEN Push(S1, CbFrame(w)) ELSE S1
    ELSE S

\* the rest of Watcher.evaluate and of computedGetter once get() returned
EvaluateRest(S, w, value) ==
    LET S1 == [S EXCEPT !.watchers[w].value = value,
                        !.watchers[w].dirty = FALSE,
                        !.hist.lz[w] = IF @ = "during" THEN "lost" ELSE "ret"]
        S2 == IF HasTarget(S1) THEN WatcherDepend(S1, w) ELSE S1
    IN  Deliver(S2, S2.watchers[w].value)

\* the getter returned: the finally block of Watcher.get (traverse when deep,
\* popTarget, cleanupDeps), then the caller of get() goes on
GetEnd(S) ==
    LET f     == Top(S)
        w     == f.w
        value == f.val
        S1    == IF S.watchers[w].deep THEN traverse(S, value) ELSE S
        S2    == cleanupDeps(popTarget(S1), w)
        S3    == Pop([S2 EXCEPT !.hist.touched[w] = S2.hist.touching[w],
                                !.hist.dropped[w] =
                                    S.watchers[w].depIds \ S2.hist.touching[w],
                                !.hist.done[w] = TRUE])
    IN  CASE f.cont = "run"      -> RunRest(S3, w, value)
          [] f.cont = "evaluate" -> EvaluateRest(S3, w, value)
          [] OTHER               -> [S3 EXCEPT !.watchers[w].value = value]

\* the getter threw.  The catch block of Watcher.get hands the error of a
\* user watcher to handleError and rethrows any other; handleError (util/
\* error.js) either returns, and get() returns undefined, or throws in its
\* turn (rethrown).  The finally block runs in every case; an error that
\* leaves get() unwinds the caller of get() (the constructor, evaluate) too
GetThrow(S, rethrown) ==
    LET f  == Top(S)
        w  == f.w
        S0 == [S EXCEPT !.hist.threw = @ \cup {w},
                        !.hist.lz[w] = IF f.cont = "evaluate" THEN "threw" ELSE @,
                        !.frames[Len(S.frames)].val = Undef]
    IN  IF ~rethrown
        THEN GetEnd(S0)
        ELSE LET S2 == cleanupDeps(popTarget(S0), w)
             IN  Pop([S2 EXCEPT !.hist.touched[w] = S2.hist.touching[w],
                                !.hist.dropped[w] =
                                    S.watchers[w].depIds \ S2.hist.touching[w],
                                !.hist.done[w] = TRUE])

\* computedGetter that evaluates on every read
computedGetterAlways(S, c) == GetBegin(S, c, "evaluate")

\* computedGetter (state.js): evaluate when dirty, then depend, then the value
computedGetter(S, c) ==
    IF S.watchers[c].dirty
    THEN GetBegin(S, c, "evaluate")
    ELSE LET S1 == [S EXCEPT !.hist.lz[c] = IF @ = "ret" THEN "hit" ELSE @]
         IN  Deliver(IF HasTarget(S1) THEN WatcherDepend(S1, c) ELSE S1,
                     S1.watchers[c].value)

\* new Watcher(vm, expOrFn, cb, options)
WatcherNew(S, o) ==
    LET id == S.uid + 1
        w  == [deep |-> o.deep, user |-> o.user, lazy |-> o.lazy,
               sync |-> o.sync, dirty |-> o.lazy, active |-> TRUE,
               deps |-> <<>>, newDeps |-> <<>>, depIds |-> {},
               newDepIds |-> {}, value |-> Undef]
        S1 == [S EXCEPT !.vm._watchers = Append(@, id),
                        !.uid = id,
                        !.watchers = Append(@, w)]
    IN  IF o.lazy THEN S1 ELSE GetBegin(S1, id, "ctor")

-----------------------------------------------------------------------------
(* Writes: the reactive setter, Vue.set, Vue.delete, the array mutators.   *)

\* reactiveSetter without the comparison of the new value with the old one
reactiveSetterNoCheck(S, obj, key, newVal) ==
    IF GetterOnly(S, obj, key) THEN S ELSE
    LET S1 == [S EXCEPT !.heap.props[obj][key] = newVal]
        S2 == observe(S1, newVal, FALSE)
        S3 == [S2 EXCEPT !.heap.childOb[obj][key] =
                   IF hasOb(S2, newVal) THEN newVal ELSE NoOb]
    IN  notify(S3, S3.heap.rdep[obj][key])

\* reactiveSetter that compares with === only
reactiveSetterStrict(S, obj, key, newVal) ==
    IF StrictEq(newVal, S.heap.props[obj][key]) THEN S
    ELSE reactiveSetterNoCheck(S, obj, key, newVal)

\* reactiveSetter of obj[key]
reactiveSetter(S, obj, key, newVal) ==
    LET value == S.heap.props[obj][key]
    IN  IF StrictEq(newVal, value) \/ (newVal = "NaN" /\ value = "NaN")
        THEN S
        ELSE IF GetterOnly(S, obj, key) THEN S
        ELSE LET S1 == [S EXCEPT !.heap.props[obj][key] = newVal]
                 S2 == observe(S1, newVal, FALSE)
                 S3 == [S2 EXCEPT !.heap.childOb[obj][key] =
                            IF hasOb(S2, newVal) THEN newVal ELSE NoOb]
             IN  notify(S3, S3.heap.rdep[obj][key])

\* the statement obj[key] = val: the setter when the key has one, else an
\* ordinary data property (created when absent)
Assign(S, obj, key, val) ==
    IF IsReactive(S, obj, key) THEN reactiveSetter(S, obj, key, val)
    ELSE [S EXCEPT !.heap.okeys[obj] = IF key \in DOMAIN S.heap.props[obj]
                                       THEN @ ELSE Append(@, key),
                   !.heap.props[obj] = [x \in DOMAIN @ \cup {key} |->
                                           IF x = key THEN val ELSE @[x]]]

\* Array.prototype.sort without a comparator orders by the string forms,
\* undefined last: "[object Object]" < "v0" < "v1"
Rank(x) ==
    CASE x = Undef   -> 5
      [] x = "v1"    -> 4
      [] x = "v0"    -> 3
      [] x \in Objs  -> 2
      [] OTHER       -> 1

RECURSIVE SortItems(_)

SortItems(its) ==
    IF its = <<>> THEN <<>>
    ELSE LET i == CHOOSE j \in 1..Len(its) :
                    /\ \A l \in 1..Len(its) : Rank(its[j]) <= Rank(its[l])
                    /\ \A l \in 1..(j-1) : Rank(its[l]) > Rank(its[j])
         IN  <<its[i]>> \o SortItems(SubSeq(its, 1, i-1)
                                        \o SubSeq(its, i+1, Len(its)))

\* splice(start, deleteCount, ...items): start and deleteCount clamped to
\* the array
SpliceStart(its, args) == IF args[1] > Len(its) THEN Len(its) ELSE args[1]

SpliceCount(its, args) ==
    LET room == Len(its) - SpliceStart(its, args)
    IN  IF args[2] > room THEN room ELSE args[2]

\* Array.prototype[method].apply(items, args): the array afterwards.
\* splice takes args = <<start, deleteCount, item...>>
Original(method, its, args) ==
    CASE method = "push"    -> its \o args
      [] method = "pop"     -> SubSeq(its, 1, Len(its) - 1)
      [] method = "shift"   -> SubSeq(its, 2, Len(its))
      [] method = "unshift" -> args \o its
      [] method = "reverse" -> [i \in 1..Len(its) |-> its[Len(its) + 1 - i]]
      [] method = "sort"    -> SortItems(its)
      [] method = "splice"  ->
            LET start == SpliceStart(its, args)
                dc    == SpliceCount(its, args)
            IN  SubSeq(its, 1, start) \o SubSeq(args, 3, Len(args))
                    \o SubSeq(its, start + dc + 1, Len(its))

\* what the native method returns: the new length (push, unshift), the
\* element removed or undefined (pop, shift), the array of the elements
\* removed (splice), the array itself (sort, reverse)
OriginalResult(arr, method, its, args) ==
    CASE method \in {"push", "unshift"} -> <<"length", Len(its) + Len(args)>>
      [] method = "pop" ->
            <<"element", IF its = <<>> THEN Undef ELSE its[Len(its)]>>
      [] method = "shift" ->
            <<"element", IF its = <<>> THEN Undef ELSE its[1]>>
      [] method = "splice" ->
            <<"removed",
              SubSeq(its, SpliceStart(its, args) + 1,
                     SpliceStart(its, args) + SpliceCount(its, args))>>
      [] OTHER -> <<"array", arr>>

\* the elements a call inserts
Inserted(method, args) ==
    CASE method \in {"push", "unshift"} -> args
      [] method = "splice"              -> SubSeq(args, 3, Len(args))
      [] OTHER                          -> <<>>

\* mutator that notifies only when the call changed the array
mutatorNotifyOnChange(S, arr, method, args) ==
    LET S1 == [S EXCEPT !.heap.items[arr] = Original(method, @, args),
                        !.hist.res = OriginalResult(arr, method,
                                         S.heap.items[arr], args)]
        S2 == observeArray(S1, Inserted(method, args))
    IN  IF S1.heap.items[arr] = S.heap.items[arr] THEN S2
        ELSE notify(S2, S2.heap.ob[arr].dep)

\* mutator: the original method, observeArray(inserted), ob.dep.notify();
\* the call returns what the original method returned
mutator(S, arr, method, args) ==
    LET S1 == [S EXCEPT !.heap.items[arr] = Original(method, @, args),
                        !.hist.res = OriginalResult(arr, method,
                                         S.heap.items[arr], args)]
        S2 == observeArray(S1, Inserted(method, args))
    IN  notify(S2, S2.heap.ob[arr].dep)

\* target.length = n on an array: holes read as undefined
SetLength(its, n) ==
    IF n <= Len(its) THEN SubSeq(its, 1, n)
    ELSE its \o [i \in 1..(n - Len(its)) |-> Undef]

\* set that defines the reactive property and notifies nobody
setNoNotify(S, tgt, key, val) ==
    IF hasOwn(S, tgt, key) THEN Assign(S, tgt, key, val)
    ELSE defineReactive(S, tgt, key, val)

\* set that splices without target.length = Math.max(target.length, key)
setNoLength(S, tgt, key, val) ==
    IF IsArray(tgt)
    THEN IF hasOb(S, tgt) THEN mutator(S, tgt, "splice", <<key, 1, val>>)
         ELSE [S EXCEPT !.heap.items[tgt] =
                   Original("splice", @, <<key, 1, val>>)]
    ELSE IF hasOwn(S, tgt, key) THEN Assign(S, tgt, key, val)
    ELSE IF hasOb(S, tgt) /\ S.heap.ob[tgt].vmCount > 0 THEN S
    ELSE IF ~hasOb(S, tgt) THEN Assign(S, tgt, key, val)
    ELSE LET S1 == defineReactive(S, tgt, key, val)
         IN  notify(S1, S1.heap.ob[tgt].dep)

\* set(target, key, val); an array takes an index, an object a key
set(S, tgt, key, val) ==
    IF IsArray(tgt)
    THEN LET n  == IF Len(S.heap.items[tgt]) > key
                   THEN Len(S.heap.items[tgt]) ELSE key
             S1 == [S EXCEPT !.heap.items[tgt] = SetLength(@, n)]
         IN  IF hasOb(S1, tgt) THEN mutator(S1, tgt, "splice", <<key, 1, val>>)
             ELSE [S1 EXCEPT !.heap.items[tgt] =
                       Original("splice", @, <<key, 1, val>>)]
    ELSE IF hasOwn(S, tgt, key) THEN Assign(S, tgt, key, val)
    ELSE IF hasOb(S, tgt) /\ S.heap.ob[tgt].vmCount > 0 THEN S
    ELSE IF ~hasOb(S, tgt) THEN Assign(S, tgt, key, val)
    ELSE LET S1 == defineReactive(S, tgt, key, val)
         IN  notify(S1, S1.heap.ob[tgt].dep)

\* delete target[key]
DeleteProp(S, obj, key) ==
    LET keep == DOMAIN S.heap.props[obj] \ {key}
    IN  [S EXCEPT !.heap.okeys[obj]   = remove(@, key),
                  !.heap.props[obj]   = [x \in keep |-> @[x]],
                  !.heap.rdep[obj]    = [x \in DOMAIN @ \ {key} |-> @[x]],
                  !.heap.childOb[obj] = [x \in DOMAIN @ \ {key} |-> @[x]]]

\* del(target, key)
del(S, tgt, key) ==
    IF IsArray(tgt)
    THEN IF hasOb(S, tgt) THEN mutator(S, tgt, "splice", <<key, 1>>)
         ELSE [S EXCEPT !.heap.items[tgt] = Original("splice", @, <<key, 1>>)]
    ELSE IF hasOb(S, tgt) /\ S.heap.ob[tgt].vmCount > 0 THEN S
    ELSE IF ~hasOwn(S, tgt, key) THEN S
    ELSE LET S1 == DeleteProp(S, tgt, key)
         IN  IF ~hasOb(S1, tgt) THEN S1
             ELSE notify(S1, S1.heap.ob[tgt].dep)

-----------------------------------------------------------------------------
(* The patch: VNode, sameVnode, sameInputType.  A VNode is a record; `def`  *)
(* is FALSE for the undefined entry of a children array.  data is          *)
(* [def, attrs, type]: data defined, data.attrs defined, data.attrs.type.  *)
(* An async factory is a name; Factories gives its error and resolved.     *)

NoPatch == [pc |-> "none"]

isDef(v) == v # Undef

Factories ==
    [f |-> [error |-> Undef, resolved |-> Undef],
     g |-> [error |-> "err", resolved |-> Undef],
     h |-> [error |-> Undef, resolved |-> "ctor"]]

NoData == [def |-> FALSE, attrs |-> FALSE, type |-> Undef]

\* new VNode(tag, data, ...) with the key
VNode(tag, key, data) ==
    [def |-> TRUE, tag |-> tag, key |-> key, isComment |-> FALSE,
     data |-> data, asyncFactory |-> Undef, isAsyncPlaceholder |-> FALSE,
     elm |-> 0]

\* isTextInputType (web/util/element, not among the sources): the text-like
\* input types
isTextInputType(t) == t \in {"text", "number", "password"}

\* isDef(i = a.data) && isDef(i = i.attrs) && i.type
InputTypeOf(a) ==
    IF a.data.def /\ a.data.attrs THEN a.data.type ELSE "false"

sameInputType(a, b) ==
    IF a.tag # "input" THEN TRUE
    ELSE LET typeA == InputTypeOf(a)
             typeB == InputTypeOf(b)
         IN  typeA = typeB \/ (isTextInputType(typeA) /\ isTextInputType(typeB))

\* sameVnode that asks the second node for the placeholder flag too
sameVnodeBoth(a, b) ==
    /\ a.key = b.key
    /\ a.asyncFactory = b.asyncFactory
    /\ \/ /\ a.tag = b.tag
          /\ a.isComment = b.isComment
          /\ a.data.def = b.data.def
          /\ sameInputType(a, b)
       \/ /\ a.isAsyncPlaceholder /\ b.isAsyncPlaceholder
          /\ ~isDef(Factories[b.asyncFactory].error)

\* sameVnode that compares the tags and not the keys
sameVnodeTagOnly(a, b) ==
    /\ a.asyncFactory = b.asyncFactory
    /\ a.tag = b.tag
    /\ a.isComment = b.isComment
    /\ a.data.def = b.data.def
    /\ sameInputType(a, b)

\* sameVnode(a, b) of two defined nodes
sameVnode(a, b) ==
    /\ a.key = b.key
    /\ a.asyncFactory = b.asyncFactory
    /\ \/ /\ a.tag = b.tag
          /\ a.isComment = b.isComment
          /\ a.data.def = b.data.def
          /\ sameInputType(a, b)
       \/ /\ a.isAsyncPlaceholder
          /\ ~isDef(Factories[b.asyncFactory].error)

\* sameVnode(a, b) raises a TypeError: a is undefined (a.key), or the second
\* disjunct reads b.asyncFactory.error of an undefined factory
sameVnodeThrows(a, b) ==
    \/ ~a.def
    \/ /\ a.key = b.key /\ a.asyncFactory = b.asyncFactory
       /\ ~(/\ a.tag = b.tag /\ a.isComment = b.isComment
            /\ a.data.def = b.data.def /\ sameInputType(a, b))
       /\ a.isAsyncPlaceholder
       /\ b.asyncFactory = Undef

-----------------------------------------------------------------------------
(* updateChildren.  v is the record of the call: oldCh and newCh (indexed  *)
(* from 1), the four indices and the four vnode locals, oldKeyToIdx, the   *)
(* children of parentElm in document order (dom; an element is a number,   *)
(* 0 is null/undefined), the calls of nodeOps (ops: <<operation, element,  *)
(* reference>>) and the calls of patchVnode (patched: <<elm of the old     *)
(* vnode, index of the new vnode>>).                                       *)

\* the undefined entry of a children array
UndefVnode == [VNode(Undef, Undef, NoData) EXCEPT !.def = FALSE]

\* ch[i], undefined outside the array
At(ch, i) == IF i \in 1..Len(ch) THEN ch[i] ELSE UndefVnode

\* the position of element e among the children of the parent, 0 if none
DomIndex(dom, e) ==
    IF \E i \in 1..Len(dom) : dom[i] = e
    THEN CHOOSE i \in 1..Len(dom) : dom[i] = e
    ELSE 0

\* nodeOps.nextSibling(e)
nextSibling(dom, e) ==
    LET i == DomIndex(dom, e)
    IN  IF i = 0 \/ i = Len(dom) THEN 0 ELSE dom[i + 1]

\* nodeOps.insertBefore(parent, e, ref) / appendChild when ref is null: a
\* child of the parent is moved
DomInsert(dom, e, ref) ==
    IF e = ref THEN dom
    ELSE LET d == remove(dom, e)
             i == DomIndex(d, ref)
         IN  IF i = 0 THEN Append(d, e)
             ELSE SubSeq(d, 1, i - 1) \o <<e>> \o SubSeq(d, i, Len(d))

\* createKeyToOldIdx(children, beginIdx, endIdx): a later index replaces an
\* earlier one of the same key
createKeyToOldIdx(ch, beginIdx, endIdx) ==
    LET idxs == {i \in beginIdx..endIdx : isDef(ch[i].key)}
    IN  [k \in {ch[i].key : i \in idxs} |->
            CHOOSE i \in idxs : /\ ch[i].key = k
                                /\ \A j \in idxs : ch[j].key = k => j <= i]

\* findIdxInOld(node, oldCh, start, end): 0 when the loop finds none
findIdxInOld(node, oldCh, start, end) ==
    LET hits == {i \in start..(end - 1) :
                    oldCh[i].def /\ sameVnode(node, oldCh[i])}
    IN  IF hits = {} THEN 0
        ELSE CHOOSE i \in hits : \A j \in hits : i <= j

\* checkDuplicateKeys(children): the warning is raised
checkDuplicateKeys(ch) ==
    \E i, j \in 1..Len(ch) : i < j /\ isDef(ch[i].key) /\ ch[i].key = ch[j].key

\* patchVnode(oldVnode, newCh[idx], ...) of two nodes without children and
\* text: vnode.elm = oldVnode.elm
patchVnode(v, oldVnode, idx) ==
    [v EXCEPT !.newCh[idx].elm = oldVnode.elm,
              !.patched = Append(@, <<oldVnode.elm, idx>>)]

\* insertBefore that leaves the children of the parent as they are
MoveBeforeNowhere(v, e, ref) ==
    [v EXCEPT !.ops = Append(@, <<"insertBefore", e, ref>>)]

\* nodeOps.insertBefore(parentElm, e, ref) called by updateChildren
MoveBefore(v, e, ref) ==
    [v EXCEPT !.dom = DomInsert(@, e, ref),
              !.ops = Append(@, <<"insertBefore", e, ref>>)]

\* createElm(newCh[idx], ..., parentElm, refElm, ...) of an element without
\* children, then insert(parentElm, vnode.elm, refElm)
createElm(v, idx, refElm) ==
    LET e  == v.nextElm
        v1 == [v EXCEPT !.nextElm = @ + 1,
                        !.newCh[idx].elm = e,
                        !.ops = Append(@, <<"createElement", e, 0>>)]
    IN  IF refElm # 0
        THEN IF DomIndex(v1.dom, refElm) # 0
             THEN MoveBefore(v1, e, refElm)
             ELSE v1
        ELSE [v1 EXCEPT !.dom = Append(@, e),
                        !.ops = Append(@, <<"appendChild", e, 0>>)]

\* removeNode(el)
removeNode(v, e) ==
    IF DomIndex(v.dom, e) # 0
    THEN [v EXCEPT !.dom = remove(@, e),
                   !.ops = Append(@, <<"removeChild", e, 0>>)]
    ELSE v

RECURSIVE addVnodes(_, _, _, _), removeVnodes(_, _, _)

addVnodes(v, refElm, startIdx, endIdx) ==
    IF startIdx > endIdx THEN v
    ELSE addVnodes(createElm(v, startIdx, refElm), refElm, startIdx + 1, endIdx)

removeVnodes(v, startIdx, endIdx) ==
    IF startIdx > endIdx THEN v
    ELSE removeVnodes(IF v.oldCh[startIdx].def
                      THEN removeNode(v, v.oldCh[startIdx].elm) ELSE v,
                      startIdx + 1, endIdx)

\* updateChildren up to its loop: the locals, checkDuplicateKeys(newCh)
updateChildrenBegin(oldCh, newCh) ==
    [pc |-> "loop", oldCh |-> oldCh, newCh |-> newCh,
     old0 |-> oldCh, new0 |-> newCh,
     oldStartIdx |-> 1, newStartIdx |-> 1,
     oldEndIdx |-> Len(oldCh), newEndIdx |-> Len(newCh),
     oldStartVnode |-> At(oldCh, 1), oldEndVnode |-> At(oldCh, Len(oldCh)),
     newStartVnode |-> At(newCh, 1), newEndVnode |-> At(newCh, Len(newCh)),
     oldKeyToIdx |-> [def |-> FALSE, map |-> <<>>],
     dom |-> [i \in 1..Len(oldCh) |-> oldCh[i].elm],
     nextElm |-> Len(oldCh) + 1,
     ops |-> <<>>, patched |-> <<>>,
     warned |-> checkDuplicateKeys(newCh)]

\* oldStartVnode = oldCh[++oldStartIdx] and the three like it
IncOldStart(v) ==
    [v EXCEPT !.oldStartIdx = @ + 1,
              !.oldStartVnode = At(v.oldCh, v.oldStartIdx + 1)]

DecOldEnd(v) ==
    [v EXCEPT !.oldEndIdx = @ - 1,
              !.oldEndVnode = At(v.oldCh, v.oldEndIdx - 1)]

IncNewStart(v) ==
    [v EXCEPT !.newStartIdx = @ + 1,
              !.newStartVnode = At(v.newCh, v.newStartIdx + 1)]

DecNewEnd(v) ==
    [v EXCEPT !.newEndIdx = @ - 1,
              !.newEndVnode = At(v.newCh, v.newEndIdx - 1)]

\* the last branch of the loop that takes the old vnode of the key however
\* its tag compares
KeyBranchByKeyOnly(v) ==
    LET v1 == IF v.oldKeyToIdx.def THEN v
              ELSE [v EXCEPT !.oldKeyToIdx =
                       [def |-> TRUE,
                        map |-> createKeyToOldIdx(v.oldCh, v.oldStartIdx,
                                                  v.oldEndIdx)]]
        key == v1.newStartVnode.key
        idxInOld == IF key \in DOMAIN v1.oldKeyToIdx.map
                    THEN v1.oldKeyToIdx.map[key] ELSE 0
    IN  IF idxInOld = 0
        THEN IncNewStart(createElm(v1, v1.newStartIdx, v1.oldStartVnode.elm))
        ELSE LET vnodeToMove == v1.oldCh[idxInOld]
             IN  IF ~vnodeToMove.def THEN [v1 EXCEPT !.pc = "TypeError"]
                 ELSE LET v2 == patchVnode(v1, vnodeToMove, v1.newStartIdx)
                          v3 == [v2 EXCEPT !.oldCh[idxInOld] = UndefVnode]
                      IN  IncNewStart(MoveBefore(v3, vnodeToMove.elm,
                                                 v3.oldStartVnode.elm))

\* the last branch of the loop without oldCh[idxInOld] = undefined
KeyBranchKeepsOld(v) ==
    LET v1 == IF v.oldKeyToIdx.def THEN v
              ELSE [v EXCEPT !.oldKeyToIdx =
                       [def |-> TRUE,
                        map |-> createKeyToOldIdx(v.oldCh, v.oldStartIdx,
                                                  v.oldEndIdx)]]
        key == v1.newStartVnode.key
        idxInOld == IF isDef(key)
                    THEN IF key \in DOMAIN v1.oldKeyToIdx.map
                         THEN v1.oldKeyToIdx.map[key] ELSE 0
                    ELSE findIdxInOld(v1.newStartVnode, v1.oldCh,
                                      v1.oldStartIdx, v1.oldEndIdx)
    IN  IF idxInOld = 0
        THEN IncNewStart(createElm(v1, v1.newStartIdx, v1.oldStartVnode.elm))
        ELSE LET vnodeToMove == v1.oldCh[idxInOld]
             IN  IF sameVnodeThrows(vnodeToMove, v1.newStartVnode)
                 THEN [v1 EXCEPT !.pc = "TypeError"]
                 ELSE IF sameVnode(vnodeToMove, v1.newStartVnode)
                 THEN LET v2 == patchVnode(v1, vnodeToMove, v1.newStartIdx)
                      IN  IncNewStart(MoveBefore(v2, vnodeToMove.elm,
                                                 v2.oldStartVnode.elm))
                 ELSE IncNewStart(createElm(v1, v1.newStartIdx,
                                            v1.oldStartVnode.elm))

\* the last branch of the loop: the old vnode with the key of newStartVnode
\* (or, without key, the first same vnode) is patched and moved, else
\* newStartVnode is created before oldStartVnode
KeyBranch(v) ==
    LET v1 == IF v.oldKeyToIdx.def THEN v
              ELSE [v EXCEPT !.oldKeyToIdx =
                       [def |-> TRUE,
                        map |-> createKeyToOldIdx(v.oldCh, v.oldStartIdx,
                                                  v.oldEndIdx)]]
        key == v1.newStartVnode.key
        idxInOld == IF isDef(key)
                    THEN IF key \in DOMAIN v1.oldKeyToIdx.map
                         THEN v1.oldKeyToIdx.map[key] ELSE 0
                    ELSE findIdxInOld(v1.newStartVnode, v1.oldCh,
                                      v1.oldStartIdx, v1.oldEndIdx)
    IN  IF idxInOld = 0
        THEN IncNewStart(createElm(v1, v1.newStartIdx, v1.oldStartVnode.elm))
        ELSE LET vnodeToMove == v1.oldCh[idxInOld]
             IN  IF sameVnodeThrows(vnodeToMove, v1.newStartVnode)
                 THEN [v1 EXCEPT !.pc = "TypeError"]
                 ELSE IF sameVnode(vnodeToMove, v1.newStartVnode)
                 THEN LET v2 == patchVnode(v1, vnodeToMove, v1.newStartIdx)
                          v3 == [v2 EXCEPT !.oldCh[idxInOld] = UndefVnode]
                      IN  IncNewStart(MoveBefore(v3, vnodeToMove.elm,
                                                 v3.oldStartVnode.elm))
                 ELSE IncNewStart(createElm(v1, v1.newStartIdx,
                                            v1.oldStartVnode.elm))

\* the loop without the four comparisons of the ends
LoopStepKeyedOnly(v) ==
    IF ~v.oldStartVnode.def THEN IncOldStart(v)
    ELSE IF ~v.oldEndVnode.def THEN DecOldEnd(v)
    ELSE KeyBranch(v)

\* one iteration of the while loop of updateChildren (canMove is true)
LoopStep(v) ==
    LET os == v.oldStartVnode
        oe == v.oldEndVnode
        ns == v.newStartVnode
        ne == v.newEndVnode
    IN  IF ~os.def THEN IncOldStart(v)
        ELSE IF ~oe.def THEN DecOldEnd(v)
        ELSE IF sameVnode(os, ns)
        THEN IncNewStart(IncOldStart(patchVnode(v, os, v.newStartIdx)))
        ELSE IF sameVnode(oe, ne)
        THEN DecNewEnd(DecOldEnd(patchVnode(v, oe, v.newEndIdx)))
        ELSE IF sameVnode(os, ne)
        THEN DecNewEnd(IncOldStart(
                 MoveBefore(patchVnode(v, os, v.newEndIdx), os.elm,
                            nextSibling(v.dom, oe.elm))))
        ELSE IF sameVnode(oe, ns)
        THEN IncNewStart(DecOldEnd(
                 MoveBefore(patchVnode(v, oe, v.newStartIdx), oe.elm, os.elm)))
        ELSE KeyBranch(v)

\* the end of updateChildren that appends the new children left to the parent
updateChildrenEndAppend(v) ==
    LET v1 == IF v.oldStartIdx > v.oldEndIdx
              THEN addVnodes(v, 0, v.newStartIdx, v.newEndIdx)
              ELSE IF v.newStartIdx > v.newEndIdx
              THEN removeVnodes(v, v.oldStartIdx, v.oldEndIdx)
              ELSE v
    IN  [v1 EXCEPT !.pc = "done"]

\* after the loop: addVnodes for the new children left, or removeVnodes for
\* the old children left
updateChildrenEnd(v) ==
    LET v1 == IF v.oldStartIdx > v.oldEndIdx
              THEN addVnodes(v, At(v.newCh, v.newEndIdx + 1).elm,
                             v.newStartIdx, v.newEndIdx)
              ELSE IF v.newStartIdx > v.newEndIdx
              THEN removeVnodes(v, v.oldStartIdx, v.oldEndIdx)
              ELSE v
    IN  [v1 EXCEPT !.pc = "done"]

-----------------------------------------------------------------------------
(* patch and patchVnode on trees.  A tree node is a VNode with an identity  *)
(* (id: two nodes are the same object iff their ids are equal), text (a     *)
(* string or undefined), children ([def, id, items]: the array, its         *)
(* identity and its entries), the flags isStatic, isCloned, isOnce and      *)
(* componentInstance.  data.hook says that data carries the hooks prepatch, *)
(* update, postpatch, create and destroy (never init: no node here is the   *)
(* placeholder of a component that createComponent mounts).  The modules of *)
(* the backend are one module with the hooks create, update and destroy and *)
(* no hook remove (cbs.remove is empty).  A log entry is <<name, a, b>>:    *)
(* a call of nodeOps with the element and the reference or parent, or a     *)
(* call of a hook with the id of the vnode.                                 *)

NoChildren == [def |-> FALSE, id |-> 0, items |-> <<>>]

Children(id, items) == [def |-> TRUE, id |-> id, items |-> items]

NoHookData == [def |-> FALSE, attrs |-> FALSE, type |-> Undef, hook |-> FALSE]

TreeData(hook) == [def |-> TRUE, attrs |-> FALSE, type |-> Undef, hook |-> hook]

\* new VNode(tag, data, children, text)
TreeNode(id, tag, key, data, children, text) ==
    VNode(tag, key, data) @@
    [id |-> id, children |-> children, text |-> text, isStatic |-> FALSE,
     isCloned |-> FALSE, isOnce |-> FALSE, componentInstance |-> Undef]

\* createTextVNode(val)
createTextVNode(id, val) == TreeNode(id, Undef, Undef, NoHookData, NoChildren, val)

\* createEmptyVNode(text): a comment
createEmptyVNode(id) ==
    [TreeNode(id, Undef, Undef, NoHookData, NoChildren, "") EXCEPT
        !.isComment = TRUE]

\* cloneVNode(vnode): a new object with a copy of the children array; elm is
\* copied, componentInstance and isOnce are not, isCloned is set
cloneVNode(vnode, id) ==
    [vnode EXCEPT !.id = id,
                  !.children.id = IF vnode.children.def THEN id ELSE 0,
                  !.componentInstance = Undef,
                  !.isAsyncPlaceholder = FALSE,
                  !.isOnce = FALSE,
                  !.isCloned = TRUE]

\* componentInstance._vnode.tag of the component instances: c1 renders an
\* element, c2 renders a text node
InstanceRootTag == [c1 |-> "div", c2 |-> Undef]

\* isPatchable(vnode)
isPatchable(vnode) ==
    IF isDef(vnode.componentInstance)
    THEN isDef(InstanceRootTag[vnode.componentInstance])
    ELSE isDef(vnode.tag)

RECURSIVE invokeDestroyHook(_), DestroyChildren(_, _)

\* invokeDestroyHook(vnode): the calls it makes, in order
invokeDestroyHook(vnode) ==
    (IF vnode.data.def
     THEN (IF vnode.data.hook THEN << <<"hook.destroy", vnode.id, 0>> >>
           ELSE <<>>) \o << <<"cbs.destroy", vnode.id, 0>> >>
     ELSE <<>>)
    \o (IF vnode.children.def THEN DestroyChildren(vnode.children.items, 1)
        ELSE <<>>)

\* for (j = 0; j < vnode.children.length; ++j) invokeDestroyHook(children[j])
DestroyChildren(items, j) ==
    IF j > Len(items) THEN <<>>
    ELSE invokeDestroyHook(items[j]) \o DestroyChildren(items, j + 1)

RECURSIVE createElmTree(_, _), createChildren(_, _, _)

\* createElm(vnode, ...) up to its call of insert: the node with vnode.elm
\* set in the whole subtree, the next fresh element and the calls made.
\* An element is created, then its children are created and appended in
\* order, then the create hooks are called (invokeCreateHooks)
createElmTree(vnode, next) ==
    IF isDef(vnode.tag)
    THEN LET made == << <<"createElement", next, 0>> >>
             c == IF vnode.children.def
                  THEN createChildren(vnode.children.items, next,
                                      [items |-> <<>>, next |-> next + 1,
                                       log |-> made])
                  ELSE IF isDef(vnode.text)
                  THEN [items |-> <<>>, next |-> next + 2,
                        log |-> made \o << <<"createTextNode", next + 1, 0>>,
                                           <<"appendChild", next + 1, next>> >>]
                  ELSE [items |-> <<>>, next |-> next + 1, log |-> made]
             hooks == IF vnode.data.def
                      THEN << <<"cbs.create", vnode.id, 0>> >>
                           \o (IF vnode.data.hook
                               THEN << <<"hook.create", vnode.id, 0>> >>
                               ELSE <<>>)
                      ELSE <<>>
         IN  [vnode |-> [vnode EXCEPT !.elm = next, !.children.items = c.items],
              next |-> c.next, log |-> c.log \o hooks]
    ELSE [vnode |-> [vnode EXCEPT !.elm = next], next |-> next + 1,
          log |-> << <<IF vnode.isComment THEN "createComment"
                       ELSE "createTextNode", next, 0>> >>]

\* createChildren(vnode, children, ...): createElm of each child with
\* parentElm = vnode.elm and refElm = null
createChildren(items, parentElm, r) ==
    IF Len(r.items) = Len(items) THEN r
    ELSE LET c == createElmTree(items[Len(r.items) + 1], r.next)
         IN  createChildren(items, parentElm,
                 [items |-> Append(r.items, c.vnode), next |-> c.next,
                  log |-> r.log \o c.log
                          \o << <<"appendChild", c.vnode.elm, parentElm>> >>])

\* insert(parent, elm, ref) on the children of the parent element (pdom;
\* hasParent is isDef(parent))
insert(P, hasParent, elm, ref) ==
    IF ~hasParent THEN P
    ELSE IF ref # 0
    THEN IF DomIndex(P.pdom, ref) # 0
         THEN [P EXCEPT !.pdom = DomInsert(@, elm, ref),
                        !.log = Append(@, <<"insertBefore", elm, ref>>)]
         ELSE P
    ELSE [P EXCEPT !.pdom = Append(remove(@, elm), elm),
                   !.log = Append(@, <<"appendChild", elm, 0>>)]

\* removeVnodes([oldVnode], 0, 0): removeAndInvokeRemoveHook (with
\* cbs.remove empty and no data.hook.remove the callback rm removes the node
\* at once) and invokeDestroyHook for a node with a tag, removeNode for a
\* text node
removeOldVnode(P) ==
    LET ch == P.oldVnode
        gone == IF DomIndex(P.pdom, ch.elm) # 0
                THEN [P EXCEPT !.pdom = remove(@, ch.elm),
                               !.log = Append(@, <<"removeChild", ch.elm, 0>>)]
                ELSE P
    IN  IF isDef(ch.tag)
        THEN [gone EXCEPT !.log = @ \o invokeDestroyHook(ch)]
        ELSE gone

\* nodeOps.setTextContent(elm, text): the children of elm are replaced by
\* the text
setTextContent(P, text) ==
    [P EXCEPT !.dom = <<>>, !.text = text,
              !.log = Append(@, <<"setTextContent", P.oldVnode.elm, 0>>)]

RECURSIVE addVnodesTree(_, _), removeVnodesTree(_, _)

\* addVnodes(elm, null, ch, 0, ch.length - 1, ...): createElm of each child
\* from index i on, appended to elm
addVnodesTree(P, i) ==
    IF i > Len(P.vnode.children.items) THEN P
    ELSE LET c == createElmTree(P.vnode.children.items[i], P.nextElm)
         IN  addVnodesTree(
                 [P EXCEPT !.vnode.children.items[i] = c.vnode,
                           !.nextElm = c.next,
                           !.dom = Append(@, c.vnode.elm),
                           !.log = @ \o c.log
                                   \o << <<"appendChild", c.vnode.elm, 0>> >>],
                 i + 1)

\* removeVnodes(oldCh, 0, oldCh.length - 1) from index i on: a child with a
\* tag is removed and its destroy hooks are invoked, a text node is removed
removeVnodesTree(P, i) ==
    IF i > Len(P.oldVnode.children.items) THEN P
    ELSE LET ch == P.oldVnode.children.items[i]
             gone == IF DomIndex(P.dom, ch.elm) # 0
                     THEN [P EXCEPT !.dom = remove(@, ch.elm),
                                    !.log = Append(@, <<"removeChild", ch.elm, 0>>)]
                     ELSE P
         IN  removeVnodesTree(
                 IF ~ch.def THEN P
                 ELSE IF isDef(ch.tag)
                 THEN [gone EXCEPT !.log = @ \o invokeDestroyHook(ch)]
                 ELSE gone,
                 i + 1)

RECURSIVE RunLoop(_)

\* the while loop of updateChildren and what follows it
RunLoop(v) ==
    IF v.pc # "loop" THEN v
    ELSE IF v.oldStartIdx <= v.oldEndIdx /\ v.newStartIdx <= v.newEndIdx
    THEN RunLoop(LoopStep(v))
    ELSE updateChildrenEnd(v)

\* updateChildren(elm, oldCh, ch, ...)
updateChildren(P, oldCh, ch) ==
    LET v == RunLoop(updateChildrenBegin(oldCh, ch))
    IN  [P EXCEPT !.vnode.children.items = v.newCh,
                  !.dom = v.dom,
                  !.log = @ \o v.ops,
                  !.pc = IF v.pc = "TypeError" THEN "TypeError" ELSE @]

\* patchVnode, the part on text and children (802-824)
patchChildren(P, oldVnode, vnode) ==
    LET oldCh == oldVnode.children
        ch == vnode.children
    IN  IF ~isDef(vnode.text)
        THEN IF oldCh.def /\ ch.def
             THEN IF oldCh.id # ch.id
                  THEN updateChildren(P, oldCh.items, ch.items)
                  ELSE P
             ELSE IF ch.def
             THEN addVnodesTree(IF isDef(oldVnode.text)
                                THEN setTextContent(P, "") ELSE P, 1)
             ELSE IF oldCh.def THEN removeVnodesTree(P, 1)
             ELSE IF isDef(oldVnode.text) THEN setTextContent(P, "")
             ELSE P
        ELSE IF oldVnode.text # vnode.text
        THEN setTextContent(P, vnode.text)
        ELSE P

\* the calls of the update hooks: cbs.update, then data.hook.update
UpdateHooks(vnode) ==
    IF vnode.data.def /\ isPatchable(vnode)
    THEN << <<"cbs.update", vnode.id, 0>> >>
         \o (IF vnode.data.hook THEN << <<"hook.update", vnode.id, 0>> >>
             ELSE <<>>)
    ELSE <<>>

\* patchVnodeRest with the update hooks after the children
patchVnodeRestHooksLast(P, oldVnode, vnode) ==
    LET P1 == [P EXCEPT !.vnode = vnode, !.path = "full"]
        P2 == patchChildren(P1, oldVnode, vnode)
    IN  [P2 EXCEPT !.log = @ \o UpdateHooks(vnode)]

\* patchVnode after the static test (786-829): prepatch, the update hooks,
\* text and children, postpatch
patchVnodeRest(P, oldVnode, vnode) ==
    LET hooked == vnode.data.def /\ vnode.data.hook
        P1 == [P EXCEPT !.vnode = vnode, !.path = "full",
                  !.log = @ \o (IF hooked
                                THEN << <<"hook.prepatch", vnode.id, 0>> >>
                                ELSE <<>>)
                            \o UpdateHooks(vnode)]
        P2 == patchChildren(P1, oldVnode, vnode)
    IN  IF P2.pc = "TypeError" THEN P2
        ELSE [P2 EXCEPT !.log = @ \o (IF hooked
                                      THEN << <<"hook.postpatch", vnode.id, 0>> >>
                                      ELSE <<>>)]

\* the test of the static fast path without the test of isCloned and isOnce
StaticReuseAny(oldVnode, vnode) ==
    vnode.isStatic /\ oldVnode.isStatic /\ vnode.key = oldVnode.key

\* the test of the static fast path (778-782)
StaticReuse(oldVnode, vnode) ==
    /\ vnode.isStatic
    /\ oldVnode.isStatic
    /\ vnode.key = oldVnode.key
    /\ (vnode.isCloned \/ vnode.isOnce)

\* hydrate(oldVnode.elm, vnode, ...) of the resolved async component (853):
\* a comment with an async factory stays a placeholder, else the init hook
\* of the component makes a new instance
hydrate(P, vnode) ==
    [P EXCEPT !.vnode = IF vnode.isComment /\ isDef(vnode.asyncFactory)
                        THEN [vnode EXCEPT !.isAsyncPlaceholder = TRUE]
                        ELSE IF vnode.data.def
                        THEN [vnode EXCEPT !.componentInstance = "c1"]
                        ELSE vnode,
              !.log = Append(@, <<"hydrate", vnode.id, 0>>)]

\* the id of the object that cloneVNode makes
CloneId == 99

\* patchVnode(oldVnode, vnode, insertedVnodeQueue, ownerArray, index); owner
\* is isDef(ownerArray)
patchVnodeRoot(P) ==
    LET oldVnode == P.oldVnode
    IN  IF oldVnode.id = P.vnode.id THEN [P EXCEPT !.path = "same"]
        ELSE
        LET vnode0 == IF P.vnode.elm # 0 /\ P.owner
                      THEN cloneVNode(P.vnode, CloneId) ELSE P.vnode
            vnode == [vnode0 EXCEPT !.elm = oldVnode.elm]
        IN  IF oldVnode.isAsyncPlaceholder
            THEN IF isDef(Factories[vnode.asyncFactory].resolved)
                 THEN hydrate([P EXCEPT !.path = "async"], vnode)
                 ELSE [P EXCEPT !.path = "async",
                                !.vnode = [vnode EXCEPT
                                              !.isAsyncPlaceholder = TRUE]]
            ELSE IF StaticReuse(oldVnode, vnode)
            THEN [P EXCEPT !.path = "static",
                           !.vnode = [vnode EXCEPT !.componentInstance =
                                         oldVnode.componentInstance]]
            ELSE patchVnodeRest(P, oldVnode, vnode)

\* patch(oldVnode, undefined) that also removes oldVnode.elm from its parent
patchDetach(P) ==
    [P EXCEPT !.pc = "returned",
              !.pdom = remove(@, P.oldVnode.elm),
              !.log = IF P.oldVnode.def
                      THEN Append(invokeDestroyHook(P.oldVnode),
                                  <<"removeChild", P.oldVnode.elm, 0>>)
                      ELSE <<>>]

\* patch(oldVnode, vnode) with vnode undefined (969-972)
patchAbsent(P) ==
    [P EXCEPT !.pc = "returned",
              !.log = IF P.oldVnode.def THEN invokeDestroyHook(P.oldVnode)
                      ELSE <<>>]

\* the replacement that removes the old node before it creates the new one
patchReplaceRemoveFirst(P) ==
    LET oldElm == P.oldVnode.elm
        ref == nextSibling(P.pdom, oldElm)
        c == createElmTree(P.vnode, P.nextElm)
        P0 == removeOldVnode(P)
        P1 == [P0 EXCEPT !.vnode = c.vnode, !.nextElm = c.next,
                         !.log = @ \o c.log,
                         !.path = "replace", !.pc = "ancestors"]
    IN  insert(P1, P.hasParent, c.vnode.elm, ref)

\* patch, the replacement (1022-1036): oldElm, parentElm, and createElm of
\* the new node with the parent and nodeOps.nextSibling(oldElm).
\* oldElm._leaveCb is never set: it is set by the transition module of the
\* web platform only
patchReplace(P) ==
    LET oldElm == P.oldVnode.elm
        c == createElmTree(P.vnode, P.nextElm)
        P1 == [P EXCEPT !.vnode = c.vnode, !.nextElm = c.next, !.log = c.log,
                        !.path = "replace", !.pc = "ancestors"]
    IN  insert(P1, P.hasParent, c.vnode.elm, nextSibling(P.pdom, oldElm))

\* patch(oldVnode, vnode, hydrating, removeOnly) up to the loop over the
\* ancestors; oldVnode is never a real element
patchBegin(P) ==
    IF ~P.vnode.def THEN patchAbsent(P)
    ELSE IF ~P.oldVnode.def
    THEN LET c == createElmTree(P.vnode, P.nextElm)
         IN  [P EXCEPT !.vnode = c.vnode, !.nextElm = c.next, !.log = c.log,
                       !.path = "create", !.pc = "returned"]
    ELSE IF sameVnode(P.oldVnode, P.vnode)
    THEN [patchVnodeRoot(P) EXCEPT !.pc = IF @ = "TypeError" THEN @
                                          ELSE "returned"]
    ELSE patchReplace(P)

\* one iteration of the loop over vnode.parent (1040-1069): the destroy
\* callbacks, ancestor.elm = vnode.elm, then the create callbacks if the new
\* node is patchable, else registerRef
patchAncestor(P) ==
    LET i == P.ancIdx
    IN  [P EXCEPT !.anc[i].elm = P.vnode.elm,
                  !.ancIdx = i + 1,
                  !.log = @ \o << <<"cbs.destroy", P.anc[i].id, 0>>,
                                  <<IF isPatchable(P.vnode) THEN "cbs.create"
                                    ELSE "registerRef", P.anc[i].id, 0>> >>]

\* the end of patch (1072-1084): removeVnodes([oldVnode], 0, 0) if the old
\* element has a parent, else the destroy hooks of an old node with a tag
patchEnd(P) ==
    LET P1 == IF P.hasParent THEN removeOldVnode(P)
              ELSE IF isDef(P.oldVnode.tag)
              THEN [P EXCEPT !.log = @ \o invokeDestroyHook(P.oldVnode)]
              ELSE P
    IN  [P1 EXCEPT !.pc = "returned"]

-----------------------------------------------------------------------------
(* Vnodes as objects.  H is the store: H.nodes[id] is the vnode with the    *)
(* identity id, whose field children is the identity of its children array  *)
(* (0: undefined); H.arrays[a] is the array a, a sequence of identities     *)
(* (0: an entry set to undefined).  Two references are the same object iff  *)
(* the identities are equal.  H.nextElm is the next element the backend     *)
(* makes.  No node is a component or an async placeholder.                  *)

\* array[i] = x of the array a of the store
SetEntry(arrays, a, i, x) ==
    [k \in 1..Len(arrays) |->
        IF k = a
        THEN [m \in 1..Len(arrays[a]) |-> IF m = i THEN x ELSE arrays[a][m]]
        ELSE arrays[k]]

\* vnode.elm = e of the node id of the store
SetElm(nodes, id, e) ==
    [k \in 1..Len(nodes) |->
        IF k = id THEN [nodes[k] EXCEPT !.elm = e] ELSE nodes[k]]

\* new VNode(tag, data, children, text, elm, ...) of the key data.key
NewVNode(tag, key, data, children, text, elm) ==
    [children |-> children, ns |-> Undef]
    @@ [TreeNode(0, tag, key, data, NoChildren, text) EXCEPT !.elm = elm]

\* cloneVNode that hands its own children array to the clone
cloneVNodeShared(H, id) ==
    LET vnode == H.nodes[id]
        cloned == NewVNode(vnode.tag, vnode.key, vnode.data, vnode.children,
                           vnode.text, vnode.elm)
    IN  [nodes |-> Append(H.nodes, [cloned EXCEPT
                                       !.ns = vnode.ns,
                                       !.isStatic = vnode.isStatic,
                                       !.isComment = vnode.isComment,
                                       !.isCloned = TRUE]),
         arrays |-> H.arrays,
         nextElm |-> H.nextElm]

\* cloneVNode(vnode): the store with the clone as its last node; the clone
\* holds vnode.children.slice(), a new array
cloneVNodeIn(H, id) ==
    LET vnode == H.nodes[id]
        sliced == vnode.children # 0
        cloned == NewVNode(vnode.tag, vnode.key, vnode.data,
                           IF sliced THEN Len(H.arrays) + 1 ELSE 0,
                           vnode.text, vnode.elm)
    IN  [nodes |-> Append(H.nodes, [cloned EXCEPT
                                       !.ns = vnode.ns,
                                       !.isStatic = vnode.isStatic,
                                       !.isComment = vnode.isComment,
                                       !.isCloned = TRUE]),
         arrays |-> IF sliced THEN Append(H.arrays, H.arrays[vnode.children])
                    ELSE H.arrays,
         nextElm |-> H.nextElm]

\* if (isDef(vnode.elm) && isDef(ownerArray))
\*     vnode = ownerArray[index] = cloneVNode(vnode)
\* of createElm (309-316) and patchVnode (752-755); a = 0: no ownerArray
CloneOnDemand(H, a, i) ==
    IF a # 0 /\ H.nodes[H.arrays[a][i]].elm # 0
    THEN LET H1 == cloneVNodeIn(H, H.arrays[a][i])
         IN  [H1 EXCEPT !.arrays = SetEntry(H1.arrays, a, i, Len(H.nodes) + 1)]
    ELSE H

RECURSIVE createElmIn(_, _, _, _), createChildrenIn(_, _, _)

\* createElm(vnode, ..., ownerArray, index) on the store: vnode is
\* ownerArray[index] (a # 0) or the node id (a = 0)
createElmIn(H, id, a, i) ==
    LET H1 == CloneOnDemand(H, a, i)
        vnode == IF a # 0 THEN H1.arrays[a][i] ELSE id
        H2 == [H1 EXCEPT !.nodes = SetElm(H1.nodes, vnode, H1.nextElm),
                         !.nextElm = H1.nextElm + 1]
    IN  IF isDef(H2.nodes[vnode].tag)
        THEN createChildrenIn(H2, H2.nodes[vnode].children, 1)
        ELSE H2

\* createChildren(vnode, children, ...) from the entry i on
createChildrenIn(H, a, i) ==
    IF a = 0 \/ i > Len(H.arrays[a]) THEN H
    ELSE createChildrenIn(createElmIn(H, 0, a, i), a, i + 1)

RECURSIVE patchVnodeIn(_, _, _, _, _), EachChildIn(_, _, _, _, _, _)

\* updateChildren(elm, oldCh, ch, ...) on the store: the loop runs on the
\* entries of the two arrays (it reads no elm of a new child before it has
\* patched or created it), then each new child is patched against the old
\* child the loop chose for it, or created
EachChildIn(H, v, oldIds, oa, na, i) ==
    IF i > Len(H.arrays[na]) THEN H
    ELSE LET hits == {p \in 1..Len(v.patched) : v.patched[p][2] = i}
             oldElm == v.patched[CHOOSE p \in hits : TRUE][1]
             j == CHOOSE j \in 1..Len(oldIds) :
                     H.nodes[oldIds[j]].elm = oldElm
             H1 == IF hits # {}
                   THEN patchVnodeIn(H, oldIds[j], H.arrays[na][i], na, i)
                   ELSE IF v.newCh[i].elm # 0
                   THEN createElmIn(H, 0, na, i)
                   ELSE H
         IN  EachChildIn(H1, v, oldIds, oa, na, i + 1)

updateChildrenIn(H, oa, na) ==
    LET oldIds == H.arrays[oa]
        oldCh == [j \in 1..Len(oldIds) |-> H.nodes[oldIds[j]]]
        ch == [j \in 1..Len(H.arrays[na]) |->
                  [H.nodes[H.arrays[na][j]] EXCEPT !.elm = 0]]
        v == RunLoop(updateChildrenBegin(oldCh, ch))
        H1 == [H EXCEPT !.arrays =
                  [k \in 1..Len(H.arrays) |->
                      IF k = oa
                      THEN [j \in 1..Len(oldIds) |->
                               IF v.oldCh[j].def THEN oldIds[j] ELSE 0]
                      ELSE H.arrays[k]]]
    IN  EachChildIn(H1, v, oldIds, oa, na, 1)

\* patchVnode(oldVnode, vnode, ..., ownerArray, index) on the store (748-758,
\* 778-785, 802-815): vnode is ownerArray[index] (a # 0) or the node id
patchVnodeIn(H, oldVnode, id, a, i) ==
    IF oldVnode = id THEN H
    ELSE LET H1 == CloneOnDemand(H, a, i)
             vnode == IF a # 0 THEN H1.arrays[a][i] ELSE id
             H2 == [H1 EXCEPT !.nodes = SetElm(H1.nodes, vnode,
                                               H.nodes[oldVnode].elm)]
             old == H2.nodes[oldVnode]
             new == H2.nodes[vnode]
         IN  IF StaticReuse(old, new) THEN H2
             ELSE IF isDef(new.text) THEN H2
             ELSE IF old.children # 0 /\ new.children # 0
             THEN IF old.children # new.children
                  THEN updateChildrenIn(H2, old.children, new.children)
                  ELSE H2
             ELSE IF new.children # 0
             THEN createChildrenIn(H2, new.children, 1)
             ELSE H2

-----------------------------------------------------------------------------
(* Vue.prototype._render and _update (lifecycle.js).  R is the record of    *)
(* the instance: _vnode (0: null), _parentVnode (the placeholder, 0: none), *)
(* production, renderError (the option is given), errorHandler              *)
(* (config.errorHandler is registered), the vnodes made so far (nodes[id]:  *)
(* isComment and parent), currentRenderingInstance (0: null, 1: vm), the    *)
(* errors handed to handleError and the last call.  What a render function  *)
(* gives is [kind, ids]: "vnode" with one identity, "array" with the        *)
(* identities of its entries (0: an entry that is no VNode), "other" for    *)
(* any other value, "throw" for an error.                                   *)

\* handleError (util/error.js, not among the sources): the error goes to the
\* registered handler, or is thrown again when there is none
handleError(R, info) ==
    [R EXCEPT !.reported = IF R.errorHandler THEN Append(@, info) ELSE @,
              !.unwinding = ~R.errorHandler]

\* the VNodes among the first j entries of what a render function gives
VNodesIn(ids, j) == Cardinality({k \in 1..j : ids[k] # 0})

\* what a render function gives (ids: 1 for a VNode, 0 for another value)
\* with the identities of the new vnodes, and the instance with these vnodes
Value(R, shape) ==
    [kind |-> shape.kind,
     ids |-> [j \in 1..Len(shape.ids) |->
                 IF shape.ids[j] = 0 THEN 0
                 ELSE Len(R.nodes) + VNodesIn(shape.ids, j)]]

Made(R, shape) ==
    [R EXCEPT !.nodes = @ \o [i \in 1..VNodesIn(shape.ids, Len(shape.ids)) |->
                                [isComment |-> FALSE, parent |-> 0]],
              !.vnode = Value(R, shape)]

\* vnode.parent = p of the vnode id
SetParent(nodes, id, p) ==
    [k \in 1..Len(nodes) |->
        IF k = id THEN [isComment |-> nodes[k].isComment, parent |-> p]
        ELSE nodes[k]]

\* vnode = vm._vnode
PrevVnode(R) ==
    IF R._vnode # 0 THEN [kind |-> "vnode", ids |-> <<R._vnode>>]
    ELSE [kind |-> "other", ids |-> <<>>]

\* the catch block (536-550) that leaves vnode undefined
renderCatchEmpty(R, re) ==
    LET R1 == handleError(R, "render")
    IN  [R1 EXCEPT !.vnode = [kind |-> "other", ids |-> <<>>]]

\* the catch block (536-550): handleError, then the result of renderError
\* outside production when the option is given, else the previous vnode
renderCatch(R, re) ==
    LET R1 == handleError(R, "render")
    IN  IF R1.unwinding THEN R1
        ELSE IF ~R.production /\ R.renderError
        THEN IF re.kind # "throw"
             THEN Made(R1, re)
             ELSE LET R2 == handleError(R1, "renderError")
                  IN  IF R2.unwinding THEN R2
                      ELSE [R2 EXCEPT !.vnode = PrevVnode(R2)]
        ELSE [R1 EXCEPT !.vnode = PrevVnode(R1)]

\* after the try statement (556-574): an array of one entry gives the entry,
\* a value that is no VNode gives createEmptyVNode(), vnode.parent is set
renderEnd(R) ==
    LET v1 == IF R.vnode.kind = "array" /\ Len(R.vnode.ids) = 1
              THEN IF R.vnode.ids[1] # 0
                   THEN [kind |-> "vnode", ids |-> R.vnode.ids]
                   ELSE [kind |-> "other", ids |-> <<>>]
              ELSE R.vnode
        R1 == IF v1.kind # "vnode"
              THEN [R EXCEPT !.nodes = Append(@, [isComment |-> TRUE,
                                                  parent |-> 0]),
                             !.warned = ~R.production /\ v1.kind = "array",
                             !.vnode = [kind |-> "vnode",
                                        ids |-> <<Len(R.nodes) + 1>>]]
              ELSE [R EXCEPT !.vnode = v1, !.warned = FALSE]
        id == R1.vnode.ids[1]
    IN  [R1 EXCEPT !.nodes = SetParent(R1.nodes, id, R._parentVnode),
                   !.returned = id]

\* vm._render() with a render function that gives r and a renderError that
\* gives re: the record when it returns (returned is the vnode) or throws
\* (unwinding)
render(R, r, re) ==
    LET R0 == [R EXCEPT !.dollarVnode = R._parentVnode,
                        !.currentRenderingInstance = 1,
                        !.unwinding = FALSE, !.returned = 0,
                        !.warned = FALSE,
                        !.first = Len(R.nodes) + 1,
                        !.r = r, !.re = re, !.prev = R._vnode,
                        !.reported = <<>>]
        R1 == IF r.kind # "throw" THEN Made(R0, r)
              ELSE renderCatch(R0, re)
        R2 == [R1 EXCEPT !.currentRenderingInstance = 0]
    IN  IF R2.unwinding THEN R2 ELSE renderEnd(R2)

\* vm._update(vnode, hydrating): vm._vnode = vnode, then the patch of the
\* previous vnode (or of vm.$el) with it
update_(R, vnode) ==
    [R EXCEPT !._vnode = vnode, !.patched = <<R._vnode, vnode>>,
              !.renders = @ + 1]

\* updateComponent: vm._update(vm._render(), hydrating)
updateComponent(R, r, re) ==
    LET R1 == render([R EXCEPT !.patched = <<0, 0>>], r, re)
    IN  IF R1.unwinding THEN R1 ELSE update_(R1, R1.returned)

\* updateChildComponent (280-309): the parent has rendered a new placeholder
updateChildComponent(R, parentVnode) ==
    [R EXCEPT !._parentVnode = parentVnode,
              !.dollarVnode = parentVnode,
              !.nodes = IF R._vnode # 0
                        THEN SetParent(R.nodes, R._vnode, parentVnode)
                        ELSE R.nodes]

-----------------------------------------------------------------------------
(* The state as one record, and back.                                      *)

Cur ==
    [heap |-> heap, depUid |-> depUid, subs |-> subs, uid |-> uid,
     watchers |-> watchers, vm |-> vm, target |-> target,
     targetStack |-> targetStack, frames |-> frames, sched |-> sched,
     hist |-> hist, config |-> config, vdom |-> vdom]

Commit(S) ==
    /\ heap' = S.heap
    /\ depUid' = S.depUid
    /\ subs' = S.subs
    /\ uid' = S.uid
    /\ watchers' = S.watchers
    /\ vm' = S.vm
    /\ target' = S.target
    /\ targetStack' = S.targetStack
    /\ frames' = S.frames
    /\ sched' = S.sched
    /\ hist' = S.hist
    /\ config' = S.config
    /\ vdom' = S.vdom

\* the variables hold the state S
Start(S) ==
    /\ heap = S.heap
    /\ depUid = S.depUid
    /\ subs = S.subs
    /\ uid = S.uid
    /\ watchers = S.watchers
    /\ vm = S.vm
    /\ target = S.target
    /\ targetStack = S.targetStack
    /\ frames = S.frames
    /\ sched = S.sched
    /\ hist = S.hist
    /\ config = S.config
    /\ vdom = S.vdom

DepIds == 0..(MaxDeps - 1)
Ws(S)  == 1..S.uid

EmptyFn == [x \in {} |-> Undef]

\* the history of one epoch: from the end of a flush to the end of the next
Epoch0 ==
    [ops |-> 0, expect |-> {}, late |-> {}, upd |-> [w \in WIds |-> 0],
     runOrder |-> <<>>,
     cbLog |-> <<>>, cbTorn |-> {}, flushLen |-> 0, asQueued |-> <<>>,
     dropped |-> [w \in WIds |-> {}]]

\* touching[w]: the Deps whose depend() ran for w in its evaluation under
\* way; touched[w]: the same for its last completed evaluation; dropped[w]:
\* the Deps w held before its evaluation in the current run of the flush that
\* the evaluation did not touch; done[w]: w has completed an evaluation; expect: the
\* watchers that an assignment since the last flush concerns; late: the watchers updated while a flush ran; upd[w]: the calls
\* of w.update() since the last flush ended and before the next started, up
\* to two;
\* asQueued: the queue as the flush found it; flushLen: its length;
\* runOrder: the watchers the flush has run; cbLog: the callbacks invoked
\* (watcher, new value, old value); cbTorn: the watchers whose callback was
\* invoked after their teardown; ops: the writes of the epoch; threw: the
\* watchers whose getter has thrown; again: the watchers whose teardown()
\* has been called when they were inactive already; lz[w]: what a lazy
\* watcher did last: "call" (its getter runs), "ret" (its getter returned),
\* "hit" (it was read after that and its getter not called), "threw" (its
\* getter threw), "upd" (its update() was called when its getter was not
\* running), "during" (its update() was called while its getter runs),
\* "lost" (its getter returned after that); res: what the last call of an
\* array method returned, with its kind; reported: the errors handed to
\* handleError (watcher, info), in order
Hist0 ==
    [touching |-> [w \in WIds |-> {}], touched |-> [w \in WIds |-> {}],
     dropped |-> Epoch0.dropped,
     done |-> [w \in WIds |-> FALSE], threw |-> {}, again |-> {},
     reported |-> <<>>,
     lz |-> [w \in WIds |-> "none"], res |-> <<"none", Undef>>,
     ops |-> Epoch0.ops,
     expect |-> Epoch0.expect, late |-> Epoch0.late, upd |-> Epoch0.upd,
     runOrder |-> Epoch0.runOrder, cbLog |-> Epoch0.cbLog,
     cbTorn |-> Epoch0.cbTorn, asQueued |-> Epoch0.asQueued,
     flushLen |-> Epoch0.flushLen]

\* a new epoch starts when a flush ends
NewEpoch(S) ==
    [S EXCEPT !.hist = [f \in DOMAIN @ |->
        IF f \in DOMAIN Epoch0 THEN Epoch0[f] ELSE @[f]]]

\* config.async is true unless it is set otherwise; the build is the
\* development build or the production build
DefaultConfig == [async |-> TRUE, production |-> FALSE]

\* the state before any object is observed and any watcher is constructed
Blank(h) ==
    [heap |-> h, depUid |-> 0, subs |-> [d \in DepIds |-> <<>>], uid |-> 0,
     watchers |-> <<>>,
     vm |-> [_watchers |-> <<>>, _isBeingDestroyed |-> FALSE],
     target |-> NoTarget, targetStack |-> <<>>, frames |-> <<>>,
     sched |-> [queue |-> <<>>, has |-> {}, waiting |-> FALSE,
                flushing |-> FALSE, index |-> 1],
     hist |-> Hist0, config |-> DefaultConfig, vdom |-> NoPatch]

RawHeap(props, okeys, items) ==
    [props |-> props, okeys |-> okeys, items |-> items,
     getters |-> [x \in PlainObjs |-> {}],
     ob |-> [x \in Objs |-> [dep |-> NoDep, vmCount |-> 0]],
     rdep |-> [x \in PlainObjs |-> EmptyFn],
     childOb |-> [x \in PlainObjs |-> EmptyFn]]

-----------------------------------------------------------------------------
(* Actions.  User code runs at top level (no frame, no flush), in a getter *)
(* or in a callback, one statement per step.                               *)

InUser(S, ctxs) == Ctx(S) \in ctxs

\* vm.$watch / initComputed / mountComponent: new Watcher(...)
NewWatcher(o) ==
    /\ InUser(Cur, {"top"})
    /\ uid + 1 \in WIds
    /\ Commit(WatcherNew(Cur, o))

\* a getter reads obj[key]
UserRead(obj, key, maxR) ==
    /\ InUser(Cur, {"get"})
    /\ Top(Cur).n < maxR
    /\ LET S1 == reactiveGetter(Cur, obj, key)
       IN  Commit([S1 EXCEPT !.frames[Len(S1.frames)].val = GetProp(S1, obj, key),
                             !.frames[Len(S1.frames)].n = @ + 1])

\* user code reads the computed property backed by the lazy watcher c
UserReadComputed(c, maxR) ==
    /\ InUser(Cur, {"top", "get"})
    /\ c \in Ws(Cur) /\ watchers[c].lazy /\ ~OnStack(Cur, c)
    /\ Ctx(Cur) = "get" => Top(Cur).n < maxR
    /\ LET S0 == IF Ctx(Cur) = "get"
                 THEN [Cur EXCEPT !.frames[Len(frames)].n = @ + 1]
                 ELSE Cur
       IN  Commit(computedGetter(S0, c))

\* user code calls w.teardown() (the unwatch function of $watch): at top
\* level, in a callback, or in the getter of a watcher being evaluated
UserTeardown(w) ==
    /\ InUser(Cur, {"top", "get", "cb"})
    /\ w \in Ws(Cur)
    /\ Ctx(Cur) = "get" => OnStack(Cur, w)
    /\ Commit(teardown(Cur, w))

\* user code calls w.teardown() once more, on a watcher torn down already
UserTeardownAgain(w) ==
    /\ InUser(Cur, {"top", "get", "cb"})
    /\ w \in Ws(Cur)
    /\ ~watchers[w].active
    /\ Commit(teardown([Cur EXCEPT !.hist.again = @ \cup {w}], w))

\* the watchers an assignment of val to obj[key] concerns: val differs from
\* the current value, and the last evaluation of the active, non-lazy
\* watcher read obj[key]
Concerned(S, obj, key, val) ==
    IF IsReactive(S, obj, key) /\ GetProp(S, obj, key) # val
    THEN {w \in Ws(S) : /\ S.heap.rdep[obj][key] \in S.hist.touched[w]
                        /\ S.watchers[w].active
                        /\ ~S.watchers[w].lazy}
    ELSE {}

\* user code (a script at top level, a callback) executes obj[key] = val
UserAssign(ctxs, obj, key, val, maxOps) ==
    /\ InUser(Cur, ctxs)
    /\ hist.ops < maxOps
    /\ Commit(Assign([Cur EXCEPT !.hist.ops = @ + 1,
                                 !.hist.expect = @ \cup
                                     Concerned(Cur, obj, key, val)],
                     obj, key, val))

\* user code calls Vue.set(tgt, key, val) / vm.$set(tgt, key, val)
UserSet(ctxs, tgt, key, val, maxOps) ==
    /\ InUser(Cur, ctxs)
    /\ hist.ops < maxOps
    /\ Commit(set([Cur EXCEPT !.hist.ops = @ + 1,
                              !.hist.expect = @ \cup
                                  Concerned(Cur, tgt, key, val)],
                  tgt, key, val))

\* user code calls Vue.set(arr, i, val) on an array, i a valid index
UserSetIndex(arr, i, val, maxOps) ==
    /\ InUser(Cur, {"top"})
    /\ hist.ops < maxOps
    /\ Commit(set([Cur EXCEPT !.hist.ops = @ + 1], arr, i, val))

\* user code calls Vue.delete(tgt, key) / vm.$delete(tgt, key): tgt an
\* array and key a valid index, or tgt an object
UserDel(tgt, key, maxOps) ==
    /\ InUser(Cur, {"top"})
    /\ hist.ops < maxOps
    /\ Commit(del([Cur EXCEPT !.hist.ops = @ + 1], tgt, key))

\* the watchers a mutation of the observed array arr concerns: their last
\* evaluation touched the Dep of the array's Observer
ConcernedByArray(S, arr) ==
    {w \in Ws(S) : /\ S.heap.ob[arr].dep \in S.hist.touched[w]
                   /\ S.watchers[w].active
                   /\ ~S.watchers[w].lazy}

\* user code calls arr[method](...args) on an observed array
UserArrayCall(ctxs, arr, method, args, maxOps, maxLen) ==
    /\ InUser(Cur, ctxs)
    /\ hasOb(Cur, arr)
    /\ hist.ops < maxOps
    /\ Len(Original(method, heap.items[arr], args)) <= maxLen
    /\ Commit(mutator([Cur EXCEPT !.hist.ops = @ + 1,
                                  !.hist.expect = @ \cup
                                      ConcernedByArray(Cur, arr)],
                      arr, method, args))

\* the getter or the callback returns
UserReturn ==
    /\ InUser(Cur, {"get", "cb"})
    /\ Commit(IF Ctx(Cur) = "get" THEN GetEnd(Cur) ELSE Pop(Cur))

\* the getter throws.  An error that is not the error of a user watcher is
\* always rethrown; an error rethrown out of run() would unwind Dep.notify
\* or the flush, which is left out: the getters that throw are those the
\* constructor or evaluate() called
UserThrow ==
    /\ InUser(Cur, {"get"})
    /\ \E rethrown \in BOOLEAN :
          /\ ~rethrown => watchers[Top(Cur).w].user
          /\ rethrown => Top(Cur).cont # "run"
          /\ Commit(GetThrow(Cur, rethrown))

\* handleError(e, vm, info) for the error of a user watcher: the error is
\* reported and handleError returns
reportError(S, w, info) ==
    [S EXCEPT !.hist.reported = Append(@, <<w, info>>)]

\* run that calls the callback of a user watcher as it calls any other,
\* this.cb.call(...): the error leaves run(), update() and the loop of
\* Dep.notify that called it
invokeUncaught(S) ==
    LET S1 == Pop(S)
    IN  IF Ctx(S1) = "notify" THEN Pop(S1) ELSE S1

\* invokeWithErrorHandling(this.cb, ...) when the callback throws: the catch
\* block hands the error to handleError and run() returns
invokeWithErrorHandling(S) ==
    Pop(reportError(S, Top(S).w, "callback"))

\* the getter of a user watcher throws and handleError returns: get() goes
\* through its finally block and returns undefined
GetterThrows ==
    /\ InUser(Cur, {"get"})
    /\ watchers[Top(Cur).w].user
    /\ Commit(GetThrow(reportError(Cur, Top(Cur).w, "getter"), FALSE))

\* the callback of a user watcher throws
CallbackThrows ==
    /\ InUser(Cur, {"cb"})
    /\ watchers[Top(Cur).w].user
    /\ Commit(invokeWithErrorHandling(Cur))

\* the loop of notify over this.subs itself, without the copy
NotifyStepLive ==
    /\ Ctx(Cur) = "notify"
    /\ LET f    == Top(Cur)
           live == subs[f.dep]
       IN  IF f.i > Len(live)
           THEN Commit(Pop(Cur))
           ELSE Commit(update([Cur EXCEPT
                                  !.frames[Len(frames)].i = @ + 1,
                                  !.frames[Len(frames)].called =
                                      Append(@, live[f.i])],
                              live[f.i]))

\* one iteration of the loop of Dep.notify: subs[i].update(); the loop is
\* over when i passes the snapshot's length
NotifyStep ==
    /\ Ctx(Cur) = "notify"
    /\ LET f == Top(Cur)
       IN  IF f.i > Len(f.snap)
           THEN Commit(Pop(Cur))
           ELSE Commit(update([Cur EXCEPT
                                  !.frames[Len(frames)].i = @ + 1,
                                  !.frames[Len(frames)].called =
                                      Append(@, f.snap[f.i])],
                              f.snap[f.i]))

\* the flush starts at the next tick: the queue is sorted by id
FlushStart ==
    /\ Ctx(Cur) = "top"
    /\ sched.waiting
    /\ Commit([Cur EXCEPT !.sched.flushing = TRUE,
                          !.sched.queue = SortById(@),
                          !.sched.index = 1,
                          !.hist.runOrder = <<>>,
                          !.hist.asQueued = sched.queue,
                          !.hist.flushLen = Len(sched.queue)])

\* the flush runs the next queued watcher: has[id] = null; watcher.run()
FlushStep ==
    /\ Ctx(Cur) = "flush"
    /\ sched.index <= Len(sched.queue)
    /\ LET w == sched.queue[sched.index]
       IN  Commit(run([Cur EXCEPT !.sched.has = @ \ {w},
                                  !.hist.dropped = Epoch0.dropped,
                                  !.sched.index = @ + 1,
                                  !.hist.runOrder = Append(@, w)], w))

\* the queue is walked to its end: the scheduler's state is reset
FlushEnd ==
    /\ Ctx(Cur) = "flush"
    /\ sched.index > Len(sched.queue)
    /\ Commit(NewEpoch([Cur EXCEPT !.sched = [queue |-> <<>>, has |-> {},
                                              waiting |-> FALSE,
                                              flushing |-> FALSE,
                                              index |-> 1]]))

-----------------------------------------------------------------------------
(* Specification Spec: one observed object o = {a, b} of primitive values  *)
(* and user watchers ($watch).  A script at top level writes o.a and o.b,  *)
(* a callback writes o.a.                                                  *)

RenderOpts   == [deep |-> FALSE, user |-> FALSE, lazy |-> FALSE, sync |-> FALSE]
ComputedOpts == [deep |-> FALSE, user |-> FALSE, lazy |-> TRUE,  sync |-> FALSE]
UserOpts     == [deep |-> FALSE, user |-> TRUE,  lazy |-> FALSE, sync |-> FALSE]
SyncOpts     == [deep |-> FALSE, user |-> TRUE,  lazy |-> FALSE, sync |-> TRUE]

CoreHeap ==
    RawHeap([x \in PlainObjs |->
                IF x = "o" THEN [k \in {"a", "b"} |-> "v0"] ELSE EmptyFn],
            [x \in PlainObjs |-> IF x = "o" THEN <<"a", "b">> ELSE <<>>],
            [x \in Arrays |-> <<>>])

Init == Start(observe(Blank(CoreHeap), "o", TRUE))

Next ==
    \/ NewWatcher(UserOpts)
    \/ \E key \in {"a", "b"} : UserRead("o", key, MaxReads)
    \/ \E key \in {"a", "b"}, val \in {"v0", "v1"} :
          UserAssign({"top"}, "o", key, val, MaxOps)
    \/ \E val \in {"v0", "v1"} : UserAssign({"cb"}, "o", "a", val, MaxOps)
    \/ UserReturn
    \/ NotifyStep
    \/ FlushStart
    \/ FlushStep
    \/ FlushEnd

Spec == Init /\ [][Next]_vars

\* Specification SpecArray: o = {a: arr}, arr an observed array, and deep
\* user watchers; user code pushes a primitive or the plain object p.
DeepOpts == [deep |-> TRUE, user |-> TRUE, lazy |-> FALSE, sync |-> FALSE]

ArrayHeap ==
    RawHeap([x \in PlainObjs |->
                IF x = "o" THEN [k \in {"a"} |-> "arr"] ELSE EmptyFn],
            [x \in PlainObjs |-> IF x = "o" THEN <<"a">> ELSE <<>>],
            [x \in Arrays |-> <<>>])

InitArray == Start(observe(Blank(ArrayHeap), "o", TRUE))

NextArray ==
    \/ NewWatcher(DeepOpts)
    \/ UserRead("o", "a", MaxReads)
    \/ \E x \in {"v0", "p"} :
          UserArrayCall({"top", "cb"}, "arr", "push", <<x>>, MaxOps, MaxLen)
    \/ UserReturn
    \/ NotifyStep
    \/ FlushStart
    \/ FlushStep
    \/ FlushEnd

SpecArray == InitArray /\ [][NextArray]_vars

\* Specification SpecSetter: o = {a: 'v0', get b () { return 'v0' }}; user
\* code assigns primitives, NaN and the plain object p = {a: 'v0'}, which no
\* Observer has seen, to o.a and to o.b.
SetterHeap ==
    [RawHeap([x \in PlainObjs |->
                 IF x = "o" THEN [k \in {"a", "b"} |-> "v0"]
                 ELSE [k \in {"a"} |-> "v0"]],
             [x \in PlainObjs |-> IF x = "o" THEN <<"a", "b">> ELSE <<"a">>],
             [x \in Arrays |-> <<>>])
        EXCEPT !.getters["o"] = {"b"}]

InitSetter == Start(observe(Blank(SetterHeap), "o", TRUE))

NextSetter ==
    \/ NewWatcher(UserOpts)
    \/ \E key \in {"a", "b"} : UserRead("o", key, MaxReads)
    \/ \E key \in {"a", "b"}, val \in {"v0", "NaN", "p"} :
          UserAssign({"top"}, "o", key, val, MaxOps)
    \/ UserReturn
    \/ NotifyStep
    \/ FlushStart
    \/ FlushStep
    \/ FlushEnd

SpecSetter == InitSetter /\ [][NextSetter]_vars

\* Specification SpecSet: o = {a: p} is the root data and p = {a: 'v0'} is
\* observed as the value of o.a; user code reads o.a and p.k, and gives p
\* the key k by set() or by a plain assignment.
SetHeap ==
    RawHeap([x \in PlainObjs |->
                IF x = "o" THEN [k \in {"a"} |-> "p"]
                ELSE [k \in {"a"} |-> "v0"]],
            [x \in PlainObjs |-> <<"a">>],
            [x \in Arrays |-> <<>>])

InitSet == Start(observe(Blank(SetHeap), "o", TRUE))

NextSet ==
    \/ NewWatcher(UserOpts)
    \/ UserRead("o", "a", MaxReads)
    \/ UserRead("p", "k", MaxReads)
    \/ \E val \in {"v0", "v1"} : UserSet({"top"}, "p", "k", val, MaxOps)
    \/ \E val \in {"v0", "v1"} : UserAssign({"top"}, "p", "k", val, MaxOps)
    \/ UserReturn
    \/ NotifyStep
    \/ FlushStart
    \/ FlushStep
    \/ FlushEnd

SpecSet == InitSet /\ [][NextSet]_vars

\* Specification SpecSame: sameVnode(a, b) for every pair of nodes of
\* VNodePool.  A node is an async placeholder only with its factory
\* (createAsyncPlaceholder, patchVnode and hydrate set the flag on nodes
\* that have one).
DataPool ==
    {NoData, [def |-> TRUE, attrs |-> FALSE, type |-> Undef]}
      \cup {[def |-> TRUE, attrs |-> TRUE, type |-> t] :
                t \in {Undef, "text", "number", "checkbox"}}

\* the async factory of a node and its placeholder flag
AsyncPool ==
    {<<Undef, FALSE>>, <<"f", FALSE>>, <<"f", TRUE>>, <<"g", FALSE>>,
     <<"g", TRUE>>}

VNodePool ==
    {[VNode(tag, key, data) EXCEPT !.isComment = c, !.asyncFactory = af[1],
                                   !.isAsyncPlaceholder = af[2]] :
        tag \in {Undef, "div", "input"}, key \in {Undef, "k1"},
        data \in DataPool, c \in BOOLEAN, af \in AsyncPool}

InitSame ==
    \E a \in VNodePool, b \in VNodePool :
        Start([Blank(CoreHeap) EXCEPT
                  !.vdom = [pc |-> "call", a |-> a, b |-> b, res |-> FALSE]])

\* the call sameVnode(a, b)
SameVnodeCall ==
    /\ vdom.pc = "call"
    /\ Commit([Cur EXCEPT !.vdom.pc = IF sameVnodeThrows(vdom.a, vdom.b)
                                      THEN "TypeError" ELSE "returned",
                          !.vdom.res = sameVnode(vdom.a, vdom.b)])

NextSame == SameVnodeCall

SpecSame == InitSame /\ [][NextSame]_vars

\* Specification SpecPatch: updateChildren(parentElm, oldCh, newCh) for the
\* lists of at most MaxCh keyed elements; the old children are rendered,
\* child i as element i, and the new ones are fresh.
ChildPool ==
    {VNode("div", key, NoData) : key \in {"k1", "k2", "k3"}}
        \cup {VNode("span", "k1", NoData)}

ChildLists == UNION {[1..n -> ChildPool] : n \in 0..MaxCh}

InitPatch ==
    \E oldCh \in ChildLists, newCh \in ChildLists :
        Start([Blank(CoreHeap) EXCEPT
                  !.vdom = [pc |-> "call",
                            oldCh |-> [i \in 1..Len(oldCh) |->
                                          [oldCh[i] EXCEPT !.elm = i]],
                            newCh |-> newCh]])

\* updateChildren is entered
UpdateChildrenBegin ==
    /\ vdom.pc = "call"
    /\ Commit([Cur EXCEPT !.vdom = updateChildrenBegin(vdom.oldCh, vdom.newCh)])

\* one iteration of its loop
UpdateChildrenStep ==
    /\ vdom.pc = "loop"
    /\ vdom.oldStartIdx <= vdom.oldEndIdx
    /\ vdom.newStartIdx <= vdom.newEndIdx
    /\ Commit([Cur EXCEPT !.vdom = LoopStep(vdom)])

\* the loop is over
UpdateChildrenEnd ==
    /\ vdom.pc = "loop"
    /\ vdom.oldStartIdx > vdom.oldEndIdx \/ vdom.newStartIdx > vdom.newEndIdx
    /\ Commit([Cur EXCEPT !.vdom = updateChildrenEnd(vdom)])

NextPatch ==
    \/ UpdateChildrenBegin
    \/ UpdateChildrenStep
    \/ UpdateChildrenEnd

SpecPatch == InitPatch /\ [][NextPatch]_vars

\* Specification SpecMove: updateChildren when the new children are a
\* permutation of the old ones, at most MaxPerm elements with the keys k1,
\* k2, ...
KeyNames == <<"k1", "k2", "k3", "k4", "k5">>

Perms(n) == {f \in [1..n -> 1..n] : \A i, j \in 1..n : f[i] = f[j] => i = j}

InitMove ==
    \E n \in 0..MaxPerm : \E f \in Perms(n) :
        Start([Blank(CoreHeap) EXCEPT
                  !.vdom = [pc |-> "call",
                            oldCh |-> [i \in 1..n |->
                                [VNode("div", KeyNames[i], NoData)
                                    EXCEPT !.elm = i]],
                            newCh |-> [i \in 1..n |->
                                VNode("div", KeyNames[f[i]], NoData)]]])

SpecMove == InitMove /\ [][NextPatch]_vars

\* Specification SpecReplace: patch(oldVnode, vnode) of an old tree that is
\* rendered (its element is OldElm, a child of a parent element or of none)
\* and a new tree that is fresh, either of them possibly undefined; the new
\* node is the root of a component under Len(anc) placeholders (vnode.parent
\* and its parents).
OldElm == 10

UndefTree ==
    [TreeNode(0, Undef, Undef, NoHookData, NoChildren, Undef) EXCEPT
        !.def = FALSE]

\* a leaf element <tag key=key> with the identity id and the element elm
Leaf(id, tag, key, elm) ==
    [TreeNode(id, tag, key, NoHookData, NoChildren, Undef) EXCEPT !.elm = elm]

TreeDatas == {NoHookData, TreeData(FALSE), TreeData(TRUE)}

\* <section><div><span/>a</div><p/></section>, rendered
OldSection(d1, d2, d3) ==
    [TreeNode(1, "section", Undef, d1,
        Children(1, <<
            [TreeNode(2, "div", Undef, d2,
                Children(2, << Leaf(3, "span", Undef, 3),
                               [createTextVNode(4, "a") EXCEPT !.elm = 4] >>),
                Undef) EXCEPT !.elm = 1],
            [TreeNode(5, "p", Undef, d3, NoChildren, Undef) EXCEPT !.elm = 2]
        >>), Undef) EXCEPT !.elm = OldElm]

\* <div key=k1> with leaves as children, rendered
OldDiv(d, keys) ==
    [TreeNode(6, "div", "k1", d,
        Children(6, [i \in 1..Len(keys) |-> Leaf(10 + i, "div", keys[i], i)]),
        Undef) EXCEPT !.elm = OldElm]

OldTrees ==
    {UndefTree, [createTextVNode(7, "a") EXCEPT !.elm = OldElm]}
        \cup {OldSection(d1, d2, d3) : d1 \in TreeDatas, d2 \in TreeDatas,
                                       d3 \in TreeDatas}
        \cup {OldDiv(d, keys) : d \in TreeDatas,
                                keys \in {<<>>, <<"k1", "k2">>}}

\* <div key=k1> with leaves as children, fresh
NewDiv(d, keys) ==
    TreeNode(20, "div", "k1", d,
        Children(20, [i \in 1..Len(keys) |-> Leaf(20 + i, "div", keys[i], 0)]),
        Undef)

\* <ul><li>b</li></ul>, fresh
NewList(d1, d2) ==
    TreeNode(30, "ul", Undef, d1,
        Children(30, << TreeNode(31, "li", Undef, d2,
                            Children(31, << createTextVNode(32, "b") >>),
                            Undef) >>), Undef)

NewTrees ==
    {UndefTree, createTextVNode(33, "b"), createEmptyVNode(34)}
        \cup {NewDiv(d, keys) : d \in TreeDatas,
                                keys \in {<<"k2", "k1">>, <<"k3">>}}
        \cup {NewList(d1, d2) : d1 \in TreeDatas, d2 \in {NoHookData, TreeData(TRUE)}}

\* the children of the parent of OldElm
ParentDoms == {<<OldElm>>, <<OldElm, 11>>, <<12, OldElm>>, <<12, OldElm, 11>>}

\* the placeholders above the new node: vnode.parent and its parents
Placeholder(i) == [id |-> 40 + i, elm |-> OldElm]

\* the record of a call of patch or patchVnode
PatchCallOf(oldVnode, vnode, owner, hasParent, pdom, nAnc) ==
    [pc |-> "call", oldVnode |-> oldVnode, vnode |-> vnode, new0 |-> vnode,
     owner |-> owner, hasParent |-> hasParent, pdom |-> pdom, pdom0 |-> pdom,
     anc |-> [i \in 1..nAnc |-> Placeholder(i)], ancIdx |-> 1,
     dom |-> [i \in 1..Len(oldVnode.children.items) |->
                 oldVnode.children.items[i].elm],
     text |-> oldVnode.text, log |-> <<>>, path |-> "none", nextElm |-> 50]

InitReplace ==
    \E oldVnode \in OldTrees, vnode \in NewTrees, nAnc \in 0..2,
       pdom \in ParentDoms \cup {<<>>} :
        /\ ~oldVnode.def => pdom = <<>>
        /\ ~vnode.def => nAnc = 0
        /\ Start([Blank(CoreHeap) EXCEPT
                     !.vdom = PatchCallOf(oldVnode, vnode, FALSE, pdom # <<>>,
                                          pdom, nAnc)])

\* patch is called and runs up to the loop over the ancestors
PatchCall ==
    /\ vdom.pc = "call"
    /\ Commit([Cur EXCEPT !.vdom = patchBegin(vdom)])

\* one iteration of the loop over the ancestors
PatchAncestor ==
    /\ vdom.pc = "ancestors"
    /\ vdom.ancIdx <= Len(vdom.anc)
    /\ Commit([Cur EXCEPT !.vdom = patchAncestor(vdom)])

\* the old node is destroyed and patch returns
PatchEnd ==
    /\ vdom.pc = "ancestors"
    /\ vdom.ancIdx > Len(vdom.anc)
    /\ Commit([Cur EXCEPT !.vdom = patchEnd(vdom)])

NextReplace ==
    \/ PatchCall
    \/ PatchAncestor
    \/ PatchEnd

SpecReplace == InitReplace /\ [][NextReplace]_vars

\* Specification SpecVnode: patchVnode(oldVnode, vnode, ..., ownerArray,
\* index) for the pairs of nodes that are the same node (sameVnode, which
\* every caller tests): elements without children, with an empty or a
\* keyed children array or with text, text nodes, a comment, placeholders
\* of async components; the new node fresh or already rendered, a child of
\* an array (owner) or not.
ElementShapes(id, keys, elms, text) ==
    {[children |-> NoChildren, text |-> Undef],
     [children |-> Children(id, <<>>), text |-> Undef],
     [children |-> NoChildren, text |-> text]}
        \cup {[children |-> Children(id,
                  [i \in 1..Len(k) |-> Leaf(id + i, "div", k[i], elms[i])]),
               text |-> Undef] : k \in keys}

OldVnodes ==
    {[TreeNode(1, "div", key, d, sh.children, sh.text) EXCEPT
         !.elm = OldElm, !.isStatic = st, !.componentInstance = ci] :
        key \in {Undef, "s"}, d \in TreeDatas, st \in BOOLEAN,
        ci \in {Undef, "c1"},
        sh \in ElementShapes(1, {<<"k1", "k2">>}, <<1, 2>>, "a")}
      \cup {[createTextVNode(1, t) EXCEPT !.elm = OldElm] : t \in {"a", "b"}}
      \cup {[createEmptyVNode(1) EXCEPT !.elm = OldElm]}
      \cup {[createEmptyVNode(1) EXCEPT
                !.elm = OldElm, !.asyncFactory = f, !.key = "s",
                !.isAsyncPlaceholder = TRUE, !.isStatic = st, !.isOnce = st] :
               f \in {"f", "h"}, st \in BOOLEAN}

\* the new nodes, and with them oldVnode itself and the new elements that
\* have the children array of oldVnode
NewVnodes(oldVnode) ==
    LET elements ==
            {[TreeNode(20, "div", key, d, sh.children, sh.text) EXCEPT
                 !.elm = e, !.isStatic = fl[1], !.isOnce = fl[2],
                 !.isCloned = fl[3], !.componentInstance = ci] :
                key \in {Undef, "s"}, d \in TreeDatas, e \in {0, 7},
                ci \in {Undef, "c2"},
                fl \in {<<FALSE, FALSE, FALSE>>, <<TRUE, FALSE, FALSE>>,
                        <<TRUE, TRUE, FALSE>>, <<TRUE, FALSE, TRUE>>},
                sh \in ElementShapes(20, {<<"k2", "k1">>, <<"k3">>},
                                      <<0, 0>>, "b")}
    IN  elements
          \cup {oldVnode}
          \cup {[n EXCEPT !.children = oldVnode.children] :
                   n \in {m \in elements :
                             oldVnode.children.def /\ m.children.def}}
          \cup {createTextVNode(20, t) : t \in {"a", "b"}}
          \cup {createEmptyVNode(20)}
          \cup {[createEmptyVNode(20) EXCEPT !.asyncFactory = "f",
                    !.key = "s", !.isStatic = TRUE, !.isOnce = TRUE]}
          \cup {[TreeNode(20, "vue-component-1", "s", TreeData(TRUE),
                          NoChildren, Undef) EXCEPT
                    !.asyncFactory = "h", !.isStatic = st, !.isOnce = st] :
                   st \in BOOLEAN}

InitVnode ==
    \E oldVnode \in OldVnodes, owner \in BOOLEAN :
        \E vnode \in NewVnodes(oldVnode) :
            /\ ~sameVnodeThrows(oldVnode, vnode)
            /\ sameVnode(oldVnode, vnode)
            /\ Start([Blank(CoreHeap) EXCEPT
                         !.vdom = PatchCallOf(oldVnode, vnode, owner, FALSE,
                                              <<>>, 0)])

\* the call patchVnode(oldVnode, vnode, ...)
PatchVnodeCall ==
    /\ vdom.pc = "call"
    /\ Commit([Cur EXCEPT !.vdom =
                  [patchVnodeRoot(vdom) EXCEPT
                      !.pc = IF @ = "TypeError" THEN @ ELSE "returned"]])

NextVnode == PatchVnodeCall

SpecVnode == InitVnode /\ [][NextVnode]_vars

\* Specification SpecClone: nodes that are used again.  The previous render
\* left the root O = <div> with the children A = <span> (static, in the svg
\* namespace, with the text child T) and B = <span> (v-once), all with their
\* elements.  The new render makes the root N = <div> whose children array
\* holds up to MaxOwned of A, B, F = <span> (new) and G = <span> (new, with a
\* child array that holds T or A again).  Either cloneVNode is called for a
\* node and createChildren for the clone, or patchVnode(O, N).
MaxOwned == 2

\* the vnodes of the two renders, by name
NodeId == [A |-> 1, B |-> 2, T |-> 3, O |-> 4, F |-> 5, G |-> 6, N |-> 7]

StoreOf(keyed, oldIds, reused, newIds) ==
    LET K(k) == IF keyed THEN k ELSE Undef
        span(k, ch, elm) == NewVNode("span", K(k), TreeData(FALSE), ch, Undef, elm)
    IN  [nodes |->
            << [span("k1", 1, 11) EXCEPT !.isStatic = TRUE, !.ns = "svg"],
               [span("k2", 0, 12) EXCEPT !.isOnce = TRUE],
               NewVNode(Undef, Undef, NoHookData, 0, "t", 13),
               NewVNode("div", Undef, NoHookData, 2, Undef, 10),
               span("k3", 0, 0),
               span("k4", 3, 0),
               NewVNode("div", Undef, NoHookData, 4, Undef, 0) >>,
         arrays |-> << <<NodeId.T>>, oldIds, <<reused>>, newIds >>,
         nextElm |-> 50]

Stores ==
    {StoreOf(keyed, oldIds, reused, newIds) :
        keyed \in BOOLEAN,
        oldIds \in {<<>>, <<NodeId.A>>, <<NodeId.B>>, <<NodeId.A, NodeId.B>>,
                    <<NodeId.B, NodeId.A>>},
        reused \in {NodeId.T, NodeId.A},
        newIds \in UNION {[1..n -> {NodeId.A, NodeId.B, NodeId.F, NodeId.G}] :
                             n \in 0..MaxOwned}}

InitClone ==
    \E H \in Stores :
        Start([Blank(CoreHeap) EXCEPT
                  !.vdom = [pc |-> "call", h |-> H, h0 |-> H, src |-> 0,
                            res |-> 0]])

\* cloneVNode(vnode) of a node of the store
CloneVNodeCall ==
    /\ vdom.pc = "call"
    /\ \E id \in 1..Len(vdom.h.nodes) :
          Commit([Cur EXCEPT !.vdom =
                     [vdom EXCEPT !.pc = "cloned",
                                  !.h = cloneVNodeIn(vdom.h, id),
                                  !.src = id,
                                  !.res = Len(vdom.h.nodes) + 1]])

\* createChildren(cloned, cloned.children, ...) of the clone, as createElm
\* does after it has cloned
CreateChildrenCall ==
    /\ vdom.pc = "cloned"
    /\ Commit([Cur EXCEPT !.vdom =
                  [vdom EXCEPT !.pc = "created",
                               !.h = createChildrenIn(
                                         vdom.h,
                                         vdom.h.nodes[vdom.res].children, 1)]])

\* patchVnode(O, N, insertedVnodeQueue, null, null)
PatchStoreCall ==
    /\ vdom.pc = "call"
    /\ Commit([Cur EXCEPT !.vdom =
                  [vdom EXCEPT !.pc = "patched",
                               !.h = patchVnodeIn(vdom.h, NodeId.O, NodeId.N, 0, 0)]])

NextClone ==
    \/ CloneVNodeCall
    \/ CreateChildrenCall
    \/ PatchStoreCall

SpecClone == InitClone /\ [][NextClone]_vars

\* Specification SpecRender: an instance, the root or the child under the
\* placeholder 40, in either build, with or without the option renderError
\* and a registered error handler, is rendered up to MaxRenders times by
\* updateComponent; its render function gives a vnode, an array, another
\* value or throws, and so does renderError.  The parent may render the
\* placeholder 41 in between.
MaxRenders == 3

NoValue == [kind |-> "other", ids |-> <<>>]

RenderValues ==
    {[kind |-> "vnode", ids |-> <<1>>], NoValue, [kind |-> "throw", ids |-> <<>>]}
    \cup {[kind |-> "array", ids |-> a] : a \in {<<>>, <<1>>, <<0>>, <<1, 1>>}}

InstanceOf(parentVnode, production, renderError, errorHandler) ==
    [pc |-> "render", _vnode |-> 0, _parentVnode |-> parentVnode,
     dollarVnode |-> 0,
     production |-> production, renderError |-> renderError,
     errorHandler |-> errorHandler, nodes |-> <<>>,
     currentRenderingInstance |-> 0, reported |-> <<>>, unwinding |-> FALSE,
     returned |-> 0, warned |-> FALSE, first |-> 1, r |-> NoValue,
     re |-> NoValue, prev |-> 0, vnode |-> NoValue, patched |-> <<0, 0>>,
     renders |-> 0, calls |-> 0]

InitRender ==
    \E parentVnode \in {0, 40}, production, renderError, errorHandler \in BOOLEAN :
        Start([Blank(CoreHeap) EXCEPT
                  !.vdom = InstanceOf(parentVnode, production, renderError,
                                      errorHandler)])

\* the render watcher runs updateComponent
UpdateComponent ==
    /\ vdom.pc = "render"
    /\ vdom.calls < MaxRenders
    /\ \E r, re \in RenderValues :
          /\ (r.kind # "throw" \/ vdom.production \/ ~vdom.renderError
                \/ ~vdom.errorHandler) => re = NoValue
          /\ Commit([Cur EXCEPT !.vdom =
                        [updateComponent(vdom, r, re) EXCEPT !.calls = @ + 1]])

\* the parent renders and patches the placeholder of the instance
UpdateChildComponent ==
    /\ vdom.pc = "render"
    /\ vdom._parentVnode = 40
    /\ Commit([Cur EXCEPT !.vdom = updateChildComponent(vdom, 41)])

NextRender ==
    \/ UpdateComponent
    \/ UpdateChildComponent

SpecRender == InitRender /\ [][NextRender]_vars

\* Specification SpecSync: sync user watchers ($watch with {sync: true}) on
\* o = {a, b}: update() runs the watcher inside Dep.notify, so getters and
\* callbacks subscribe, unsubscribe, tear down and write while a
\* notification pass is under way.  A script writes o.a, a callback o.b.
\* Nothing is queued: there is no flush.
NextSync ==
    \/ NewWatcher(SyncOpts)
    \/ \E key \in {"a", "b"} : UserRead("o", key, MaxReads)
    \/ \E w \in WIds : UserTeardown(w)
    \/ \E val \in {"v0", "v1"} : UserAssign({"top"}, "o", "a", val, MaxOps)
    \/ UserAssign({"cb"}, "o", "b", "v1", MaxOps)
    \/ UserReturn
    \/ NotifyStep

SpecSync == Init /\ [][NextSync]_vars

\* Specification SpecIsolate: sync user watchers on o.a whose getters and
\* callbacks return or throw; a script and the callbacks write o.a.  The
\* errors are handed to handleError, which reports them and returns.
NextIsolate ==
    \/ NewWatcher(SyncOpts)
    \/ UserRead("o", "a", MaxReads)
    \/ \E val \in {"v0", "v1"} : UserAssign({"top", "cb"}, "o", "a", val, MaxOps)
    \/ UserReturn
    \/ GetterThrows
    \/ CallbackThrows
    \/ NotifyStep

SpecIsolate == Init /\ [][NextIsolate]_vars

\* Specification SpecDeep: traverse(val) one call of _traverse per step, on
\* every graph over the objects o = {a, b}, p = {k} and the array arr of one
\* element in which a property or element is a primitive or one of the three
\* (cycles and shared objects among them); none, one or all of them have been
\* observed before.  vdom holds the traversal: the frames of _traverse (the
\* container and the count i of its loop), seenObjects, the containers whose
\* loop was entered in this traversal (visits, in order), the number of
\* traversals, and whether the last one was left by a RangeError.
MaxDepth      == 8   \* the frames of _traverse the call stack has room for
MaxTraversals == 2

DeepHeaps ==
    {RawHeap([x \in PlainObjs |->
                 IF x = "o" THEN [k \in {"a", "b"} |-> IF k = "a" THEN a ELSE b]
                 ELSE [k \in {"k"} |-> c]],
             [x \in PlainObjs |-> IF x = "o" THEN <<"a", "b">> ELSE <<"k">>],
             [x \in Arrays |-> <<e>>]) :
        a \in {"v0", "p", "arr"}, b \in {"v0", "o", "p"},
        c \in {"v0", "o", "p", "arr"}, e \in {"v0", "o", "p"}}

NoTraversal ==
    [pc |-> "idle", stack |-> <<>>, seen |-> {}, visits |-> <<>>, n |-> 0,
     overflow |-> FALSE]

InitDeep ==
    \E h \in DeepHeaps, observed \in {{}, {"o"}, {"p"}, {"arr"}} :
        LET S0 == [Blank(h) EXCEPT !.vdom = NoTraversal]
        IN  Start(IF observed = {} THEN S0
                  ELSE observe(S0, CHOOSE x \in observed : TRUE, FALSE))

\* the number of entries the loop of _traverse runs over
Size(S, val) ==
    IF IsArray(val) THEN Len(S.heap.items[val]) ELSE Len(S.heap.okeys[val])

\* the call _traverse(val, seen) up to its loop: return for a value that is
\* no object, return for a seen Dep id, else add the id, if there is an
\* Observer, and enter the loop.  With MaxDepth frames on the stack the call
\* raises the RangeError, which leaves traverse before seenObjects.clear()
traverseEnter(S, val) ==
    LET T == S.vdom
    IN  IF ~isObject(val) THEN S
        ELSE IF hasOb(S, val) /\ S.heap.ob[val].dep \in T.seen THEN S
        ELSE IF Len(T.stack) = MaxDepth
        THEN [S EXCEPT !.vdom = [T EXCEPT !.pc = "idle", !.stack = <<>>,
                                          !.overflow = TRUE, !.n = @ + 1]]
        ELSE [S EXCEPT !.vdom =
                 [T EXCEPT !.seen = IF hasOb(S, val)
                                    THEN @ \cup {S.heap.ob[val].dep} ELSE @,
                           !.visits = Append(@, val),
                           !.stack = Append(@, [val |-> val,
                                                i |-> Size(S, val)])]]

\* traverse returns once the first call of _traverse has: seenObjects.clear()
traverseReturn(S) ==
    IF S.vdom.pc = "run" /\ S.vdom.stack = <<>>
    THEN [S EXCEPT !.vdom = [S.vdom EXCEPT !.pc = "idle", !.seen = {},
                                           !.n = @ + 1]]
    ELSE S

\* traverse(val) of a value a deep watcher's getter returned
TraverseCall ==
    /\ vdom.pc = "idle"
    /\ vdom.n < MaxTraversals
    /\ \E val \in {"v0"} \cup Objs :
          Commit(traverseReturn(traverseEnter(
              [Cur EXCEPT !.vdom = [vdom EXCEPT !.pc = "run",
                                                !.visits = <<>>,
                                                !.overflow = FALSE]], val)))

\* one iteration of while (i--) _traverse(val[i], seen), or the return of
\* the call whose loop is over
TraverseStep ==
    /\ vdom.pc = "run"
    /\ LET f == vdom.stack[Len(vdom.stack)]
       IN  IF f.i = 0
           THEN Commit(traverseReturn(
                    [Cur EXCEPT !.vdom.stack = SubSeq(@, 1, Len(@) - 1)]))
           ELSE LET S1 == [Cur EXCEPT !.vdom.stack[Len(vdom.stack)].i = @ - 1]
                IN  IF IsArray(f.val)
                    THEN Commit(traverseEnter(S1, S1.heap.items[f.val][f.i]))
                    ELSE LET key == S1.heap.okeys[f.val][f.i]
                         IN  Commit(traverseEnter(
                                 reactiveGetter(S1, f.val, key),
                                 S1.heap.props[f.val][key]))

NextDeep ==
    \/ TraverseCall
    \/ TraverseStep

SpecDeep == InitDeep /\ [][NextDeep]_vars

\* Specification SpecComputed: a computed property and a user watcher,
\* queued or sync, on o.a; the getters read o.a and the computed property, a
\* script reads the computed property and writes o.a; the queued watcher
\* runs in the flush.
NextComputed ==
    \/ \E o \in {ComputedOpts, UserOpts, SyncOpts} : NewWatcher(o)
    \/ UserRead("o", "a", MaxReads)
    \/ \E c \in WIds : UserReadComputed(c, MaxReads)
    \/ \E val \in {"v0", "v1"} : UserAssign({"top"}, "o", "a", val, MaxOps)
    \/ UserReturn
    \/ NotifyStep
    \/ FlushStart
    \/ FlushStep
    \/ FlushEnd

SpecComputed == Init /\ [][NextComputed]_vars

\* Specification SpecRemove: removeAndInvokeRemoveHook(vnode) of a node whose
\* componentInstance chain has up to MaxNested nested root nodes, each with
\* or without data and with or without a remove hook of its own, with zero
\* to MaxRemoveHooks remove hooks of the modules.  A hook that is handed rm
\* calls it once, before it returns or later.  vdom holds the chain, the
\* calls still to be made by the call under way (events), the counter
\* rm.listeners, the listeners registered and the calls of rm so far, the
\* calls of rm still owed by hooks that returned, the calls of removeNode,
\* and whether the element is a child of its parent.
MaxNested      == 2
MaxRemoveHooks == 2

\* the chains: node 1 is the vnode, node k + 1 the root vnode of the
\* componentInstance of node k
RemoveChains ==
    UNION {[1..n -> [data : BOOLEAN, hook : BOOLEAN]] : n \in 1..(MaxNested + 1)}

RECURSIVE removeAndInvokeRemoveHookFirst(_, _, _, _)

\* removeAndInvokeRemoveHook that calls the hooks of a node before it goes
\* into the root node of its componentInstance
removeAndInvokeRemoveHookFirst(chain, k, rm, nMods) ==
    IF rm \/ chain[k].data
    THEN <<[e |-> IF rm THEN "add" ELSE "createRmCb", n |-> nMods + 1]>>
         \o [i \in 1..nMods |-> [e |-> "module", n |-> k]]
         \o <<[e |-> IF chain[k].data /\ chain[k].hook THEN "hook" ELSE "rm",
               n |-> k]>>
         \o (IF k < Len(chain) /\ chain[k + 1].data
             THEN removeAndInvokeRemoveHookFirst(chain, k + 1, TRUE, nMods)
             ELSE <<>>)
    ELSE <<[e |-> "removeNode", n |-> k]>>

RECURSIVE removeAndInvokeRemoveHook(_, _, _, _)

\* removeAndInvokeRemoveHook(vnode, rm) as the calls it makes, in order:
\* the count (createRmCb, or rm.listeners += listeners), the recursion into
\* the root of the component, cbs.remove[i](vnode, rm), then
\* data.hook.remove(vnode, rm) or rm(); removeNode for a node without data
removeAndInvokeRemoveHook(chain, k, rm, nMods) ==
    IF rm \/ chain[k].data
    THEN <<[e |-> IF rm THEN "add" ELSE "createRmCb", n |-> nMods + 1]>>
         \o (IF k < Len(chain) /\ chain[k + 1].data
             THEN removeAndInvokeRemoveHook(chain, k + 1, TRUE, nMods)
             ELSE <<>>)
         \o [i \in 1..nMods |-> [e |-> "module", n |-> k]]
         \o <<[e |-> IF chain[k].data /\ chain[k].hook THEN "hook" ELSE "rm",
               n |-> k]>>
    ELSE <<[e |-> "removeNode", n |-> k]>>

\* removeNode(el): removeChild when the element has a parent
removeNodeOf(T) ==
    [T EXCEPT !.removeNodes = @ + 1,
              !.removeChilds = IF T.inParent THEN @ + 1 ELSE @,
              !.inParent = FALSE]

\* the function remove of createRmCb: if (--remove.listeners === 0)
\* removeNode(childElm)
rmCb(T) ==
    LET T1 == [T EXCEPT !.listeners = @ - 1, !.called = @ + 1]
    IN  IF T1.listeners = 0 THEN removeNodeOf(T1) ELSE T1

InitRemove ==
    \E chain \in RemoveChains, nMods \in 0..MaxRemoveHooks,
       inParent \in BOOLEAN :
        Start([Blank(CoreHeap) EXCEPT
                  !.vdom = [pc |-> "call", chain |-> chain, nMods |-> nMods,
                            events |-> <<>>, listeners |-> 0,
                            registered |-> 0, called |-> 0, owed |-> 0,
                            removeNodes |-> 0, removeChilds |-> 0,
                            inParent |-> inParent, was |-> inParent]])

\* removeVnodes calls removeAndInvokeRemoveHook(ch)
RemoveCall ==
    /\ vdom.pc = "call"
    /\ Commit([Cur EXCEPT !.vdom =
                  [vdom EXCEPT !.pc = "run",
                               !.events = removeAndInvokeRemoveHook(
                                              vdom.chain, 1, FALSE,
                                              vdom.nMods)]])

\* the next call the function makes; a hook calls rm before it returns
\* (now) or keeps it
RemoveStep ==
    /\ vdom.pc = "run"
    /\ vdom.events # <<>>
    /\ LET ev == Head(vdom.events)
           T  == [vdom EXCEPT !.events = Tail(@)]
       IN  \E now \in BOOLEAN :
              Commit([Cur EXCEPT !.vdom =
                  CASE ev.e = "createRmCb" ->
                           [T EXCEPT !.listeners = ev.n, !.registered = ev.n]
                    [] ev.e = "add" ->
                           [T EXCEPT !.listeners = @ + ev.n,
                                     !.registered = @ + ev.n]
                    [] ev.e \in {"module", "hook"} ->
                           IF now THEN rmCb(T) ELSE [T EXCEPT !.owed = @ + 1]
                    [] ev.e = "rm" -> rmCb(T)
                    [] OTHER -> removeNodeOf(T)])

\* the function has returned
RemoveReturn ==
    /\ vdom.pc = "run"
    /\ vdom.events = <<>>
    /\ Commit([Cur EXCEPT !.vdom.pc = "returned"])

\* a hook that kept rm calls it (the end of a leave transition)
RmLater ==
    /\ vdom.pc = "returned"
    /\ vdom.owed > 0
    /\ Commit([Cur EXCEPT !.vdom = rmCb([vdom EXCEPT !.owed = @ - 1])])

NextRemove ==
    \/ RemoveCall
    \/ RemoveStep
    \/ RemoveReturn
    \/ RmLater

SpecRemove == InitRemove /\ [][NextRemove]_vars

\* Specification SpecStore: the Vuex store's commit, replaceState and
\* _withCommit.  A mutation has one or two handlers; a handler returns,
\* throws, or commits another mutation; a script commits, replaces the state
\* or writes the state directly (strict mode asserts _committing then).
\* vdom holds _committing, the calls of _withCommit under way (the value
\* each saved, the handlers it has still to finish), the subscriber calls
\* (the flag at the call and the number of commits under way), and whether
\* the last direct write was asserted.
MaxNestedCommits == 2
MaxCommits       == 3

InitStore ==
    Start([Blank(CoreHeap) EXCEPT
              !.vdom = [committing |-> FALSE, stack |-> <<>>,
                        subscribed |-> <<>>, commits |-> 0,
                        threw |-> FALSE, asserted |-> "none"]])

\* _withCommit(fn) up to fn(): const committing = this._committing;
\* this._committing = true
withCommitBegin(T, kind, handlers) ==
    [T EXCEPT !.stack = Append(@, [saved |-> T.committing, kind |-> kind,
                                   todo |-> handlers]),
              !.committing = TRUE,
              !.commits = @ + 1]

\* fn() has returned: this._committing = committing; in commit the
\* subscribers are called next
withCommitEnd(T) ==
    LET f  == T.stack[Len(T.stack)]
        T1 == [T EXCEPT !.committing = f.saved,
                        !.stack = SubSeq(@, 1, Len(@) - 1)]
    IN  IF f.kind = "commit"
        THEN [T1 EXCEPT !.subscribed =
                 Append(@, <<T1.committing, Len(T1.stack)>>)]
        ELSE T1

\* fn() has thrown: _withCommit has no finally, the assignment after fn() is
\* not reached in any call of _withCommit the error passes through
withCommitThrow(T) ==
    [T EXCEPT !.stack = <<>>, !.threw = TRUE]

\* store.commit(type) with a known type of one or two handlers, or
\* store.replaceState(state), by a script or by a handler
CommitCall ==
    /\ vdom.commits < MaxCommits
    /\ Len(vdom.stack) < MaxNestedCommits
    /\ vdom.stack # <<>> => vdom.stack[Len(vdom.stack)].todo > 0
    /\ \E kind \in {"commit", "replaceState"}, handlers \in 1..2 :
          /\ kind = "replaceState" => handlers = 1
          /\ Commit([Cur EXCEPT !.vdom =
                        withCommitBegin([vdom EXCEPT !.asserted = "none"],
                                        kind, handlers)])

\* the handler that is running returns
HandlerReturns ==
    /\ vdom.stack # <<>>
    /\ vdom.stack[Len(vdom.stack)].todo > 0
    /\ Commit([Cur EXCEPT !.vdom.stack[Len(vdom.stack)].todo = @ - 1])

\* the handler that is running throws
HandlerThrows ==
    /\ vdom.stack # <<>>
    /\ vdom.stack[Len(vdom.stack)].todo > 0
    /\ Commit([Cur EXCEPT !.vdom = withCommitThrow(vdom)])

\* every handler has returned
WithCommitEnd ==
    /\ vdom.stack # <<>>
    /\ vdom.stack[Len(vdom.stack)].todo = 0
    /\ Commit([Cur EXCEPT !.vdom = withCommitEnd(vdom)])

\* a script writes store.state directly: the sync deep watcher of
\* enableStrictMode asserts store._committing
DirectWrite ==
    /\ vdom.stack = <<>>
    /\ vdom.asserted = "none"
    /\ Commit([Cur EXCEPT !.vdom.asserted =
                  IF vdom.committing THEN "passed" ELSE "failed"])

NextStore ==
    \/ CommitCall
    \/ HandlerReturns
    \/ HandlerThrows
    \/ WithCommitEnd
    \/ DirectWrite

SpecStore == InitStore /\ [][NextStore]_vars

\* Specification SpecKeepAlive: a keep-alive component with max unset (0),
\* 1 or 2 whose slot holds, from one render to the next, one of the
\* components a, b, c without key or the component a with the key k1.  A
\* render is followed by the patch, which gives a vnode without cached
\* instance a new instance, or the instance of the vnode it replaces when
\* both have the same key and tag.  The hook mounted or updated, which
\* calls cacheVNode, runs after the render, or after up to MaxPending
\* renders when the render watcher is queued again in the flush in which it
\* ran: the updated hooks are called when the queue has been walked.  vdom
\* holds cache, keys, vnodeToCache and keyToCache, the
\* vnode rendered last (_vnode), the instances destroyed, and the keys in
\* the order of their last render (recency).
MaxKeepAlive == 5   \* renders of the keep-alive component
MaxPending   == 2   \* renders of one flush, before the updated hook

CacheKeys == {"a", "b", "c", "k1"}
NoEntry   == [tag |-> "none", inst |-> 0]
NoVnode   == [tag |-> "none", key |-> "none", inst |-> 0]

\* the tag of the component whose vnode gets the cache key k: without
\* vnode.key the key is Ctor.cid + '::' + tag
TagOf(k) == IF k = "k1" THEN "a" ELSE k

InitKeepAlive ==
    \E max \in 0..2 :
        Start([Blank(CoreHeap) EXCEPT
                  !.vdom = [pending |-> 0, max |-> max,
                            cache |-> [k \in CacheKeys |-> NoEntry],
                            keys |-> <<>>, vnodeToCache |-> NoVnode,
                            keyToCache |-> "none", current |-> NoVnode,
                            destroyed |-> {}, nextInst |-> 1,
                            recency |-> <<>>, renders |-> 0,
                            evicted |-> "none"]])

\* pruneCacheEntry(cache, key, keys, current)
pruneCacheEntry(T, key, current) ==
    LET entry == T.cache[key]
        T1 == IF entry # NoEntry
                    /\ (current = NoVnode \/ entry.tag # current.tag)
              THEN [T EXCEPT !.destroyed = @ \cup {entry.inst}]
              ELSE T
    IN  [T1 EXCEPT !.cache = [k \in CacheKeys |->
                                 IF k = key THEN NoEntry ELSE T1.cache[k]],
                   !.keys = remove(@, key),
                   !.evicted = key]

\* cacheVNode
cacheVNode(T) ==
    IF T.vnodeToCache # NoVnode
    THEN LET v  == T.vnodeToCache
             T1 == [T EXCEPT !.cache = [k \in CacheKeys |->
                                          IF k = T.keyToCache
                                          THEN [tag |-> v.tag, inst |-> v.inst]
                                          ELSE T.cache[k]],
                             !.keys = Append(@, T.keyToCache)]
             T2 == IF T1.max # 0 /\ Len(T1.keys) > T1.max
                   THEN pruneCacheEntry(T1, T1.keys[1], T1.current)
                   ELSE T1
         IN  [T2 EXCEPT !.vnodeToCache = NoVnode]
    ELSE T

\* render of the slot's component with the cache key `key`, and the patch
\* that follows: a cached instance is reused and its key made the freshest,
\* else the vnode is kept for cacheVNode and the patch makes its instance
keepAliveRender(T, key) ==
    IF T.cache[key] # NoEntry
    THEN [T EXCEPT !.current = [tag |-> TagOf(key), key |-> key,
                                inst |-> T.cache[key].inst],
                   !.keys = Append(remove(@, key), key)]
    ELSE IF T.current.key = key
    THEN [T EXCEPT !.vnodeToCache = T.current, !.keyToCache = key]
    ELSE LET v == [tag |-> TagOf(key), key |-> key, inst |-> T.nextInst]
         IN  [T EXCEPT !.vnodeToCache = v, !.keyToCache = key,
                       !.current = v, !.nextInst = @ + 1]

\* the render watcher of keep-alive runs: vm._update(vm._render())
KeepAliveRender ==
    /\ vdom.pending < MaxPending
    /\ vdom.renders < MaxKeepAlive
    /\ \E key \in CacheKeys :
          Commit([Cur EXCEPT !.vdom =
              [keepAliveRender(vdom, key) EXCEPT
                  !.pending = @ + 1,
                  !.renders = @ + 1,
                  !.evicted = "none",
                  !.recency = Append(remove(@, key), key)]])

\* mounted () / updated (): this.cacheVNode()
KeepAliveHook ==
    /\ vdom.pending > 0
    /\ Commit([Cur EXCEPT !.vdom = [cacheVNode(vdom) EXCEPT !.pending = 0]])

NextKeepAlive ==
    \/ KeepAliveRender
    \/ KeepAliveHook

SpecKeepAlive == InitKeepAlive /\ [][NextKeepAlive]_vars

\* Specification SpecStack: a render watcher, a user watcher and computed
\* properties on o = {a, b}; a getter reads o.a, o.b and the computed
\* properties (an evaluation nested in the evaluation under way), and a
\* getter returns or throws.  Nothing is written.
NextStack ==
    \/ \E o \in {RenderOpts, ComputedOpts, UserOpts} : NewWatcher(o)
    \/ \E key \in {"a", "b"} : UserRead("o", key, MaxReads)
    \/ \E c \in WIds : UserReadComputed(c, MaxReads)
    \/ UserReturn
    \/ UserThrow

SpecStack == Init /\ [][NextStack]_vars

\* Specification SpecTorn: user watchers on o.a that are torn down, at top
\* level, in a callback or in their own getter, while they are subscribed
\* or queued, and torn down again; a script writes o.a.
NextTorn ==
    \/ NewWatcher(UserOpts)
    \/ UserRead("o", "a", MaxReads)
    \/ \E w \in WIds : UserTeardown(w)
    \/ \E w \in WIds : UserTeardownAgain(w)
    \/ \E val \in {"v0", "v1"} : UserAssign({"top"}, "o", "a", val, MaxOps)
    \/ UserReturn
    \/ NotifyStep
    \/ FlushStart
    \/ FlushStep
    \/ FlushEnd

SpecTorn == Init /\ [][NextTorn]_vars

\* Specification SpecModes: watchers of every mode on o.a: computed (lazy),
\* sync, queued (neither), and lazy and sync at once.  Getters read o.a and
\* the computed properties, a script reads the computed properties and
\* writes o.a.
LazySyncOpts == [deep |-> FALSE, user |-> FALSE, lazy |-> TRUE, sync |-> TRUE]

NextModes ==
    \/ \E o \in {ComputedOpts, SyncOpts, UserOpts, LazySyncOpts} : NewWatcher(o)
    \/ UserRead("o", "a", MaxReads)
    \/ \E c \in WIds : UserReadComputed(c, MaxReads)
    \/ \E val \in {"v0", "v1"} : UserAssign({"top"}, "o", "a", val, MaxOps)
    \/ UserReturn
    \/ NotifyStep
    \/ FlushStart
    \/ FlushStep
    \/ FlushEnd

SpecModes == Init /\ [][NextModes]_vars

\* Specification SpecLazy: computed properties (lazy watchers) over
\* o = {a, b}.  A script and the getters read the computed properties, the
\* getters read o.a, return or throw; a script writes o.a, and so may a
\* getter (a notification that arrives while a getter runs).
NextLazy ==
    \/ NewWatcher(ComputedOpts)
    \/ UserRead("o", "a", MaxReads)
    \/ \E c \in WIds : UserReadComputed(c, MaxReads)
    \/ \E val \in {"v0", "v1"} : UserAssign({"top"}, "o", "a", val, MaxOps)
    \/ UserAssign({"get"}, "o", "a", "v1", MaxOps)
    \/ UserReturn
    \/ UserThrow
    \/ NotifyStep

SpecLazy == Init /\ [][NextLazy]_vars

\* Specification SpecRun: one user watcher, deep or not, on o = {a, b}; a
\* script writes o.a, and writes the plain object p or NaN to o.b, so that a
\* re-evaluation returns a value that differs from the stored one, the same
\* primitive, NaN again, or the same object.
NextRun ==
    \/ \E o \in {UserOpts, DeepOpts} : uid = 0 /\ NewWatcher(o)
    \/ \E key \in {"a", "b"} : UserRead("o", key, MaxReads)
    \/ \E val \in {"v0", "v1"} : UserAssign({"top"}, "o", "a", val, MaxOps)
    \/ \E val \in {"p", "NaN"} : UserAssign({"top"}, "o", "b", val, MaxOps)
    \/ UserReturn
    \/ NotifyStep
    \/ FlushStart
    \/ FlushStep
    \/ FlushEnd

SpecRun == Init /\ [][NextRun]_vars

\* Specification SpecOrder: computed and sync watchers on o.a, in both
\* builds and with config.async true or false.  A script reads the computed
\* properties, so that a watcher created first may subscribe last, and
\* writes o.a.  Neither kind of watcher is queued: update() marks a computed
\* watcher dirty and runs a sync one.
Configs == [async : BOOLEAN, production : BOOLEAN]

InitOrder ==
    \E c \in Configs :
        Start([observe(Blank(CoreHeap), "o", TRUE) EXCEPT !.config = c])

NextOrder ==
    \/ \E o \in {ComputedOpts, SyncOpts} : NewWatcher(o)
    \/ UserRead("o", "a", MaxReads)
    \/ \E c \in WIds : UserReadComputed(c, MaxReads)
    \/ \E val \in {"v0", "v1"} : UserAssign({"top"}, "o", "a", val, MaxOps)
    \/ UserReturn
    \/ NotifyStep

SpecOrder == InitOrder /\ [][NextOrder]_vars

\* Specification SpecMutators: o = {a: arr}, arr an observed array, one user
\* watcher reading o.a; a script calls the seven intercepted methods, with
\* primitives and the plain object p as arguments.
ArrayCalls ==
    << [method |-> "push",    args |-> <<"v0">>],
       [method |-> "push",    args |-> <<"p", "v1">>],
       [method |-> "unshift", args |-> <<"p">>],
       [method |-> "pop",     args |-> <<>>],
       [method |-> "shift",   args |-> <<>>],
       [method |-> "reverse", args |-> <<>>],
       [method |-> "sort",    args |-> <<>>],
       [method |-> "splice",  args |-> <<0, 1>>],
       [method |-> "splice",  args |-> <<1, 1, "p">>],
       [method |-> "splice",  args |-> <<1, 0, "v1", "p">>] >>

NextMutators ==
    \/ uid = 0 /\ NewWatcher(UserOpts)
    \/ UserRead("o", "a", MaxReads)
    \/ \E i \in 1..Len(ArrayCalls) :
          UserArrayCall({"top"}, "arr", ArrayCalls[i].method,
                        ArrayCalls[i].args, MaxOps, MaxLen)
    \/ UserReturn
    \/ NotifyStep
    \/ FlushStart
    \/ FlushStep
    \/ FlushEnd

SpecMutators == InitArray /\ [][NextMutators]_vars

\* Specification SpecSetDel: o = {a: arr, b: p} is the root data, arr an
\* observed array and p = {k: 'v0'} an observed object that is not root
\* data; one user watcher reads o.a, o.b and p.k; a script calls Vue.set and
\* Vue.delete on arr with indices inside and beyond the array, and on p.k,
\* MaxOps calls in all (the watcher is queued and no flush runs).
SetDelHeap ==
    RawHeap([x \in PlainObjs |->
                IF x = "o" THEN [k \in {"a", "b"} |-> IF k = "a" THEN "arr" ELSE "p"]
                ELSE [k \in {"k"} |-> "v0"]],
            [x \in PlainObjs |-> IF x = "o" THEN <<"a", "b">> ELSE <<"k">>],
            [x \in Arrays |-> <<>>])

InitSetDel == Start(observe(Blank(SetDelHeap), "o", TRUE))

Indices == 0..MaxLen

NextSetDel ==
    \/ uid = 0 /\ NewWatcher(UserOpts)
    \/ \E key \in {"a", "b"} : UserRead("o", key, MaxReads)
    \/ UserRead("p", "k", MaxReads)
    \/ \E i \in Indices, val \in {"v0", "v1"} : UserSetIndex("arr", i, val, MaxOps)
    \/ \E i \in Indices : UserDel("arr", i, MaxOps)
    \/ \E val \in {"v0", "v1"} :
          hasOwn(Cur, "p", "k") /\ UserSet({"top"}, "p", "k", val, MaxOps)
    \/ UserDel("p", "k", MaxOps)
    \/ UserReturn
    \/ NotifyStep

SpecSetDel == InitSetDel /\ [][NextSetDel]_vars

\* Specification SpecTeardown: the same object and watchers, o.a is written,
\* and user code may tear a watcher down: at top level, in a callback, or in
\* the watcher's own getter.
NextTeardown ==
    \/ NewWatcher(UserOpts)
    \/ \E key \in {"a", "b"} : UserRead("o", key, MaxReads)
    \/ \E w \in WIds : UserTeardown(w)
    \/ \E val \in {"v0", "v1"} :
          UserAssign({"top", "cb"}, "o", "a", val, MaxOps)
    \/ UserReturn
    \/ NotifyStep
    \/ FlushStart
    \/ FlushStep
    \/ FlushEnd

SpecTeardown == Init /\ [][NextTeardown]_vars

-----------------------------------------------------------------------------
(* Properties.                                                             *)

Count(s, x) == Cardinality({i \in 1..Len(s) : s[i] = x})

\* the callbacks of w invoked since the last flush ended
CbCount(w) == Cardinality({i \in 1..Len(hist.cbLog) : hist.cbLog[i][1] = w})

\* the flush has walked its queue to the end
FlushDone == Ctx(Cur) = "flush" /\ sched.index > Len(sched.queue)

Live(w) == watchers[w].active /\ ~watchers[w].lazy

\* C1: when o.k is assigned a value that differs from its current one, every
\* active non-lazy watcher whose last evaluation read o.k is re-evaluated
\* exactly once, with at most one callback, by the end of the next flush
\* (at least once when it was updated again while that flush ran); a watcher
\* that no differing assignment concerns is neither queued nor re-evaluated
\* and its callback is not invoked.
C1_DependencyCorrectness ==
    /\ \A w \in SeqToSet(sched.queue) : w \in hist.expect
    /\ \A w \in Ws(Cur) : CbCount(w) <= Count(hist.runOrder, w)
    /\ FlushDone =>
          \A w \in Ws(Cur) : Live(w) =>
             IF w \in hist.expect
             THEN IF w \in hist.late
                  THEN Count(hist.runOrder, w) >= 1
                  ELSE Count(hist.runOrder, w) = 1
             ELSE Count(hist.runOrder, w) = 0 /\ CbCount(w) = 0

\* a flush is over in which one watcher was re-evaluated once and its callback
\* invoked once, and another watcher, which no assignment concerned, was not
C1_Witness ==
    /\ FlushDone
    /\ hist.ops = MaxOps
    /\ \E w, x \in Ws(Cur) :
          /\ w \in hist.expect \ hist.late
          /\ Count(hist.runOrder, w) = 1 /\ CbCount(w) = 1
          /\ x \notin hist.expect /\ hist.done[x]
          /\ Count(hist.runOrder, x) = 0

\* C2: a watcher whose most recent evaluation did not read o.k, though an
\* earlier one did, is not in the subscriber list of o.k's Dep; a
\* notification of that Dep does not reach it, and it is queued for a
\* re-evaluation only when an assignment concerns it.
C2_Unsubscription ==
    /\ \A w \in Ws(Cur) : hist.done[w] /\ ~OnStack(Cur, w) =>
          \A d \in DepIds \ hist.touched[w] : w \notin SeqToSet(subs[d])
    /\ \A i \in 1..Len(frames) : frames[i].k = "notify" =>
          \A j \in 1..Len(frames[i].snap) :
             frames[i].dep \in hist.touched[frames[i].snap[j]]
    /\ \A w \in SeqToSet(sched.queue) : w \in hist.expect

\* o.k, which w read in its evaluation before the last but not in its last,
\* has been assigned and its Dep is notifying its subscribers: w is not one
C2_Witness ==
    /\ Ctx(Cur) = "notify"
    /\ Top(Cur).i > Len(Top(Cur).snap)
    /\ \E w \in Ws(Cur) :
          /\ Top(Cur).dep \in hist.dropped[w]
          /\ w \notin SeqToSet(Top(Cur).snap)
          /\ w \notin sched.has

\* C3: once w.teardown() has been called (w is inactive), w is in no Dep's
\* subscriber list and its callback is not invoked again.
C3_Teardown ==
    \A w \in Ws(Cur) : ~watchers[w].active =>
       /\ \A d \in DepIds : w \notin SeqToSet(subs[d])
       /\ w \notin hist.cbTorn

\* C4: a Dep's subscriber list holds a watcher at most once.
C4_SubscribedOnce ==
    \A d \in DepIds : \A w \in Ws(Cur) : Count(subs[d], w) <= 1

\* a watcher that is being re-evaluated has read the same property twice and
\* is once in the list of its Dep, while another watcher has been torn down
C4_Witness ==
    /\ Ctx(Cur) = "get"
    /\ Top(Cur).n = 2
    /\ hist.done[Top(Cur).w]
    /\ \E d \in DepIds : /\ hist.touching[Top(Cur).w] = {d}
                          /\ Count(subs[d], Top(Cur).w) = 1
    /\ \E x \in Ws(Cur) : ~watchers[x].active

\* what holds of w when its evaluation has completed; prev: w.depIds before
PostGet(S, w, prev) ==
    /\ SeqToSet(S.watchers[w].deps) = S.hist.touched[w]
    /\ Len(S.watchers[w].deps) = Cardinality(S.hist.touched[w])
    /\ S.watchers[w].depIds = S.hist.touched[w]
    /\ S.watchers[w].newDeps = <<>>
    /\ S.watchers[w].newDepIds = {}
    /\ \A d \in S.hist.touched[w] : w \in SeqToSet(S.subs[d])
    /\ \A d \in prev \ S.hist.touched[w] : w \notin SeqToSet(S.subs[d])

Pending == SubSeq(sched.queue, sched.index, Len(sched.queue))

Queued(w) == Live(w) /\ ~watchers[w].sync

\* C6: a non-lazy, non-sync watcher that received update() twice or more
\* before the flush started is in the pending queue once, and the flush runs
\* it exactly once (unless it is updated again while the flush runs).
C6_IdempotentQueuing ==
    /\ \A w \in Ws(Cur) : Count(Pending, w) <= 1
    /\ ~sched.flushing =>
          \A w \in Ws(Cur) : Queued(w) /\ hist.upd[w] >= 2 =>
             Count(sched.queue, w) = 1
    /\ FlushDone =>
          \A w \in Ws(Cur) :
             Queued(w) /\ hist.upd[w] >= 2 /\ w \notin hist.late =>
                Count(hist.runOrder, w) = 1

\* a flush is over that has run, once, a watcher updated twice before it
C6_Witness ==
    /\ FlushDone
    /\ \E w \in Ws(Cur) : /\ hist.upd[w] = 2 /\ w \notin hist.late
                          /\ Count(hist.runOrder, w) = 1

\* s[1..n] is strictly ascending
Ascending(s, n) ==
    \A i, j \in 1..n : i < j /\ j <= Len(s) => s[i] < s[j]

\* C7: within one flush the watchers run in ascending id order.
C7_AscendingOrder ==
    \A i, j \in 1..Len(hist.runOrder) :
       i < j => hist.runOrder[i] <= hist.runOrder[j]

\* C7 (amended): the watchers that were queued when the flush started run
\* in ascending id order whatever the order of their queuing, and ids
\* ascend in the order of construction; a watcher queued while the flush
\* runs is run later in the same flush.
C7_AscendingAtStart ==
    /\ Ascending(hist.runOrder, hist.flushLen)
    /\ \A i \in 1..hist.flushLen :
          i <= Len(hist.runOrder) => hist.runOrder[i] \in SeqToSet(hist.asQueued)
    /\ Ascending(vm._watchers, Len(vm._watchers))
    /\ FlushDone => \A w \in hist.late : Count(hist.runOrder, w) >= 1

\* a flush has run watcher 1 and then watcher 2, which was queued first
C7_Witness ==
    /\ FlushDone
    /\ hist.asQueued = <<2, 1>>
    /\ hist.runOrder = <<1, 2>>
    /\ hist.late = {}

\* C8: when elements have been pushed on the observed array arr, a deep
\* watcher whose getter returned arr before and returns it again has its
\* callback invoked exactly once by the end of the flush, with arr as the
\* new value and as the old one.
C8_ArrayPush ==
    FlushDone =>
       \A w \in Ws(Cur) :
          /\ Live(w) /\ watchers[w].deep
          /\ w \in hist.expect \ hist.late
          /\ watchers[w].value = "arr"
          => /\ CbCount(w) = 1
             /\ \A i \in 1..Len(hist.cbLog) :
                   hist.cbLog[i][1] = w => hist.cbLog[i] = <<w, "arr", "arr">>

\* one push since the last flush, and the flush has invoked the callback of
\* a deep watcher once, with the array as new and as old value
C8_Witness ==
    /\ FlushDone
    /\ hist.ops = 1
    /\ heap.items["arr"] # <<>>
    /\ \E w \in Ws(Cur) :
          /\ watchers[w].deep /\ w \in hist.expect \ hist.late
          /\ hist.cbLog = << <<w, "arr", "arr">> >>

\* the step stored nothing, subscribed or unsubscribed nobody, observed
\* nothing and notified nobody
SetterNoOp ==
    /\ heap' = heap /\ subs' = subs /\ depUid' = depUid
    /\ frames' = frames /\ sched' = sched /\ watchers' = watchers

\* the step stored val in obj[key], val is observed and is the property's
\* childOb when it is an object, and with that done notify() of the
\* property's Dep has been entered once: its loop is at its first subscriber
SetterStored(obj, key, val) ==
    /\ heap'.props[obj][key] = val
    /\ heap'.childOb[obj][key] = IF isObject(val) THEN val ELSE NoOb
    /\ isObject(val) => heap'.ob[val].dep # NoDep
    /\ subs' = subs
    /\ frames' = Append(frames, NotifyFrame(heap.rdep[obj][key],
                                            subs[heap.rdep[obj][key]]))

\* newVal === value || (newVal !== newVal && value !== value)
SameValue(obj, key, val) ==
    \/ StrictEq(val, heap.props[obj][key])
    \/ val = "NaN" /\ heap.props[obj][key] = "NaN"

\* C9: an assignment to a reactive property of a value identical to the
\* current one, or of NaN when the current one is NaN, leaves the stored
\* value, the child Observer and the subscribers unchanged and notifies
\* nobody; any other assignment stores the value, observes it, and then
\* calls notify() of the property's Dep once.
C9_ReactiveSetter ==
    [][\A key \in {"a", "b"}, val \in {"v0", "NaN", "p"} :
          UserAssign({"top"}, "o", key, val, MaxOps)
              /\ IsReactive(Cur, "o", key)
          => IF SameValue("o", key, val)
             THEN SetterNoOp
             ELSE SetterStored("o", key, val)]_vars

\* C9 for the properties that were data properties when made reactive; an
\* assignment to a property that has a getter and no setter changes nothing.
C9_DataPropertySetter ==
    [][\A key \in {"a", "b"}, val \in {"v0", "NaN", "p"} :
          UserAssign({"top"}, "o", key, val, MaxOps)
              /\ IsReactive(Cur, "o", key)
          => IF SameValue("o", key, val) \/ GetterOnly(Cur, "o", key)
             THEN SetterNoOp
             ELSE SetterStored("o", key, val)]_vars

\* o.a = p has just run: p is stored and observed, and notify() of the Dep
\* of o.a has been entered with a watcher subscribed
C9_Witness ==
    /\ hist.ops >= 1
    /\ heap.props["o"]["a"] = "p"
    /\ heap.childOb["o"]["a"] = "p"
    /\ hasOb(Cur, "p")
    /\ frames # <<>>
    /\ Top(Cur).k = "notify" /\ Top(Cur).i = 1
    /\ Top(Cur).dep = heap.rdep["o"]["a"]
    /\ Top(Cur).snap # <<>>

\* the active watchers whose last evaluation read the reactive obj[key]
Readers(obj, key) ==
    {w \in Ws(Cur) : /\ heap.rdep[obj][key] \in hist.touched[w]
                     /\ watchers[w].active}

\* C10: set(p, 'k', val) on the observed object p, which is not root data
\* and has no key k, makes k a reactive property holding val and enters
\* notify() of the Dep of p's Observer once; p.k = val when p has no key k
\* makes k an ordinary property and notifies nobody; an assignment of a
\* different value to the reactive p.k enters notify() of its Dep with
\* every watcher that read it among the subscribers.
C10_SetNewKey ==
    [][\A val \in {"v0", "v1"} :
          /\ UserSet({"top"}, "p", "k", val, MaxOps)
                 /\ ~hasOwn(Cur, "p", "k")
                 /\ hasOb(Cur, "p") /\ heap.ob["p"].vmCount = 0
             => /\ heap'.props["p"] = [x \in {"a", "k"} |->
                                          IF x = "k" THEN val
                                          ELSE heap.props["p"][x]]
                /\ "k" \in DOMAIN heap'.rdep["p"]
                /\ heap'.rdep["p"]["k"] \notin
                       {heap'.rdep["p"]["a"], heap'.rdep["o"]["a"],
                        heap'.ob["p"].dep, heap'.ob["o"].dep}
                /\ frames' = Append(frames,
                                    NotifyFrame(heap.ob["p"].dep,
                                                subs[heap.ob["p"].dep]))
          /\ UserAssign({"top"}, "p", "k", val, MaxOps)
                 /\ ~hasOwn(Cur, "p", "k")
             => /\ heap'.props["p"]["k"] = val
                /\ "k" \notin DOMAIN heap'.rdep["p"]
                /\ frames' = frames /\ sched' = sched
                /\ subs' = subs /\ watchers' = watchers
          /\ UserAssign({"top"}, "p", "k", val, MaxOps)
                 /\ IsReactive(Cur, "p", "k")
                 /\ val # heap.props["p"]["k"]
             => /\ frames' = Append(frames,
                                    NotifyFrame(heap.rdep["p"]["k"],
                                                subs[heap.rdep["p"]["k"]]))
                /\ Readers("p", "k") \subseteq
                       SeqToSet(subs[heap.rdep["p"]["k"]])]_vars

\* p.k was made reactive by set(), a watcher read it, and an assignment of
\* a different value has entered notify() of its Dep with that watcher
\* subscribed
C10_Witness ==
    /\ IsReactive(Cur, "p", "k")
    /\ frames # <<>>
    /\ Top(Cur).k = "notify" /\ Top(Cur).i = 1
    /\ Top(Cur).dep = heap.rdep["p"]["k"]
    /\ \E w \in Ws(Cur) :
          /\ heap.rdep["p"]["k"] \in hist.touched[w]
          /\ w \in SeqToSet(Top(Cur).snap)

\* the type attribute of a node: data.attrs.type, undefined when there is
\* none
TypeAttr(a) == IF a.data.def /\ a.data.attrs THEN a.data.type ELSE Undef

UniqueKeys(ch) ==
    /\ \A i \in 1..Len(ch) : isDef(ch[i].key)
    /\ \A i, j \in 1..Len(ch) : ch[i].key = ch[j].key => i = j

\* the calls of nodeOps of one operation, in order
OpsOf(kind) == SelectSeq(vdom.ops, LAMBDA o : o[1] = kind)

\* the new list is the old list, key by key and tag by tag, followed by
\* more nodes
IsAppend(old, new) ==
    /\ Len(old) <= Len(new)
    /\ \A i \in 1..Len(old) :
          new[i].key = old[i].key /\ new[i].tag = old[i].tag

\* C12: when the new children are the old children, same keys and tags in
\* the same order, followed by n more keyed nodes, updateChildren creates
\* and inserts exactly the n appended nodes, one element each, in order at
\* the end, and calls no insertBefore and no removeChild.
C12_AppendMinimal ==
    (vdom.pc \in {"loop", "done", "TypeError"}
        /\ IsAppend(vdom.old0, vdom.new0)) =>
       /\ vdom.pc # "TypeError"
       /\ OpsOf("insertBefore") = <<>> /\ OpsOf("removeChild") = <<>>
       /\ vdom.pc = "done" =>
             LET n == Len(vdom.new0) - Len(vdom.old0)
                 m == Len(vdom.old0)
             IN  /\ vdom.ops =
                       [j \in 1..(2 * n) |->
                          IF j % 2 = 1
                          THEN <<"createElement", m + (j + 1) \div 2, 0>>
                          ELSE <<"appendChild", m + j \div 2, 0>>]
                 /\ \A i \in 1..Len(vdom.newCh) : vdom.newCh[i].elm = i
                 /\ vdom.dom = [i \in 1..(m + n) |-> i]

\* one old child, two nodes appended, and the two are created
C12_Witness ==
    /\ vdom.pc = "done"
    /\ IsAppend(vdom.old0, vdom.new0)
    /\ Len(vdom.old0) = 1 /\ Len(vdom.new0) = 3
    /\ Len(OpsOf("createElement")) = 2

\* the new list is a permutation of the old list: unique keys, each with
\* the same tag in both
IsPermutation(old, new) ==
    /\ UniqueKeys(old) /\ UniqueKeys(new)
    /\ Len(old) = Len(new)
    /\ \A i \in 1..Len(old) : \E j \in 1..Len(new) :
          new[j].key = old[i].key /\ new[j].tag = old[i].tag

\* C13: when the new children are a permutation of the old children,
\* updateChildren creates no element and removes none, its only calls of
\* nodeOps are insertBefore moves of old elements, and each new child
\* reuses the element of the old child with its key; the parent ends with
\* the elements in the order of the new children.
C13_MoveMinimal ==
    (vdom.pc \in {"loop", "done", "TypeError"}
        /\ IsPermutation(vdom.old0, vdom.new0)) =>
       /\ vdom.pc # "TypeError"
       /\ \A j \in 1..Len(vdom.ops) :
             /\ vdom.ops[j][1] = "insertBefore"
             /\ vdom.ops[j][2] \in 1..Len(vdom.old0)
       /\ vdom.pc = "done" =>
             /\ \A i \in 1..Len(vdom.newCh), j \in 1..Len(vdom.old0) :
                   vdom.new0[i].key = vdom.old0[j].key
                      => vdom.newCh[i].elm = j
             /\ vdom.dom = [i \in 1..Len(vdom.newCh) |-> vdom.newCh[i].elm]

\* old [A, B, C, D] and new [B, D, A, C], which no comparison of the ends
\* resolves at first: done, by moves only
C13_Witness ==
    /\ vdom.pc = "done"
    /\ Len(vdom.old0) = 4
    /\ IsPermutation(vdom.old0, vdom.new0)
    /\ vdom.dom = <<2, 4, 1, 3>>
    /\ vdom.oldKeyToIdx.def
    /\ vdom.ops # <<>>

\* C14: with unique keys in each list, when old child i and new child j
\* have the same key and different tags, the element of old child i is
\* never handed to patchVnode, and when updateChildren is done a new
\* element has been created for new child j and the element of old child i
\* has been removed from the parent.
C14_KeyCollision ==
    (vdom.pc \in {"loop", "done", "TypeError"}
        /\ UniqueKeys(vdom.old0) /\ UniqueKeys(vdom.new0)) =>
       \A i \in 1..Len(vdom.old0), j \in 1..Len(vdom.new0) :
          (vdom.old0[i].key = vdom.new0[j].key
              /\ vdom.old0[i].tag # vdom.new0[j].tag) =>
             /\ vdom.pc # "TypeError"
             /\ \A n \in 1..Len(vdom.patched) : vdom.patched[n][1] # i
             /\ vdom.pc = "done" =>
                   /\ vdom.newCh[j].elm > Len(vdom.old0)
                   /\ <<"createElement", vdom.newCh[j].elm, 0>>
                          \in SeqToSet(vdom.ops)
                   /\ DomIndex(vdom.dom, vdom.newCh[j].elm) # 0
                   /\ <<"removeChild", i, 0>> \in SeqToSet(vdom.ops)
                   /\ DomIndex(vdom.dom, i) = 0

\* old [{key k1, div}] and new [{key k1, span}]: done, one element created
\* and the old one removed
C14_Witness ==
    /\ vdom.pc = "done"
    /\ Len(vdom.old0) = 1 /\ Len(vdom.new0) = 1
    /\ vdom.old0[1].key = vdom.new0[1].key
    /\ vdom.old0[1].tag = "div" /\ vdom.new0[1].tag = "span"
    /\ vdom.dom = <<2>>
    /\ vdom.patched = <<>>

\* C15: with a key repeated in the old list or in the new list
\* updateChildren raises no error: it never compares an entry of oldCh that
\* it has set to undefined.
C15_DuplicateKeysNonFatal ==
    (vdom.pc \in {"loop", "done", "TypeError"}
        /\ (checkDuplicateKeys(vdom.old0) \/ checkDuplicateKeys(vdom.new0)))
       => vdom.pc # "TypeError"

\* s is the first elements of t
IsPrefix(s, t) == Len(s) <= Len(t) /\ s = SubSeq(t, 1, Len(s))

\* C16: a pass of Dep.notify calls update() on the watchers that were
\* subscribed when notify started, each once and in their order, whatever
\* is subscribed or unsubscribed while the pass runs: the calls made so far
\* are always the first of that list, and the pass ends when they are all
\* of it.
C16_NotifySnapshot ==
    [][/\ \A n \in 1..Len(frames') :
             frames'[n].k = "notify"
                => IsPrefix(frames'[n].called, frames'[n].snap)
       /\ \A d \in DepIds :
             (Len(frames') = Len(frames) + 1
                 /\ frames'[Len(frames')].k = "notify"
                 /\ frames'[Len(frames')].dep = d)
                => frames'[Len(frames')].snap = subs[d]
       /\ (Ctx(Cur) = "notify" /\ Len(frames') < Len(frames))
             => Top(Cur).called = Top(Cur).snap]_vars

\* a pass is over with update() called on both watchers subscribed at its
\* start, one of them unsubscribed while the pass ran
C16_Witness ==
    /\ Ctx(Cur) = "notify"
    /\ Top(Cur).i > Len(Top(Cur).snap)
    /\ Top(Cur).called = Top(Cur).snap
    /\ Len(Top(Cur).snap) = 2
    /\ \E w \in SeqToSet(Top(Cur).snap) : w \notin SeqToSet(subs[Top(Cur).dep])

\* a step of the getter on top of the stack that ends its Watcher.get: the
\* frame is gone, or the caller of get() has gone on to a callback
GetCompletes ==
    /\ Ctx(Cur) = "get"
    /\ \/ Len(frames') < Len(frames)
       \/ frames'[Len(frames)].k # "get"

\* while a getter runs Dep.target is its watcher, which is the top of
\* targetStack
TargetIsEvaluating ==
    Ctx(Cur) = "get" =>
        /\ target = Top(Cur).w
        /\ targetStack # <<>>
        /\ targetStack[Len(targetStack)] = Top(Cur).w

\* C17: for every evaluation Watcher.get(), whether the getter returns or
\* throws, Dep.target after the call is what it was before the call (the
\* same watcher, or null) and targetStack has the depth it had; while the
\* getter runs Dep.target is the evaluating watcher, nested evaluations
\* included
C17_StackDiscipline ==
    [][/\ TargetIsEvaluating
       /\ GetCompletes =>
              /\ target' = Top(Cur).t0
              /\ Len(targetStack') = Top(Cur).d0]_vars

\* C17 as the code has it: Dep.target after the call is the watcher it was
\* before the call when there was one; when there was none (null, which
\* Dep.target is until the first evaluation ends, or undefined) it is
\* undefined.  The depth of targetStack is what it was, and while the getter
\* runs Dep.target is the evaluating watcher, nested evaluations included
C17_StackDisciplineUndefined ==
    [][/\ TargetIsEvaluating
       /\ GetCompletes =>
              /\ target' = IF Top(Cur).t0 = NoTarget
                           THEN UndefTarget ELSE Top(Cur).t0
              /\ Len(targetStack') = Top(Cur).d0
              /\ Top(Cur).d0 > 0 => targetStack'[Top(Cur).d0] = Top(Cur).t0]_vars

\* the getter of the computed watcher 1, read by the getter of the render
\* watcher 2, has thrown: the getter of 2 runs on, Dep.target is 2 again and
\* targetStack holds 2 alone
C17_Witness ==
    /\ Len(frames) = 1 /\ Top(Cur).k = "get" /\ Top(Cur).w = 2
    /\ watchers[1].lazy /\ ~watchers[2].lazy /\ ~watchers[2].user
    /\ hist.threw = {1} /\ watchers[1].dirty
    /\ target = 2 /\ targetStack = <<2>>

\* C18: a second and any later call of w.teardown() changes no state: no
\* subscriber list of a Dep, not the owner's list of watchers, not the
\* active flag nor anything else of a watcher
C18_TeardownIdempotent ==
    [][\A w \in WIds :
          UserTeardownAgain(w) =>
              UNCHANGED <<heap, depUid, subs, uid, watchers, vm, target,
                          targetStack, frames, sched>>]_vars

\* watcher 1 was torn down in its own getter before it read o.a, so that it
\* is inactive and a subscriber of the Dep of o.a still, and teardown() has
\* been called on it again
C18_Witness ==
    /\ 1 \in hist.again
    /\ ~watchers[1].active
    /\ frames = <<>>
    /\ \E d \in SeqToSet(watchers[1].deps) : 1 \in SeqToSet(subs[d])

\* C19: when the flush comes to a watcher that is inactive (torn down while
\* it was queued), run() does nothing: no getter is called, no value and no
\* dependency set of any watcher changes, no subscriber list changes, no
\* callback is invoked
C19_InactiveSkipped ==
    [][(/\ Ctx(Cur) = "flush"
        /\ sched.index <= Len(sched.queue)
        /\ ~watchers[sched.queue[sched.index]].active)
       => /\ UNCHANGED <<heap, subs, watchers, target, targetStack, frames>>
          /\ hist'.cbLog = hist.cbLog
          /\ hist'.touching = hist.touching
          /\ sched'.index = sched.index + 1]_vars

\* watcher 1 read o.a, o.a was written and 1 queued, 1 was torn down at top
\* level, and the flush has passed it: its value is the old one, no callback
\* was invoked
C19_Witness ==
    /\ Ctx(Cur) = "flush"
    /\ hist.runOrder = <<1>>
    /\ ~watchers[1].active
    /\ hist.upd[1] > 0
    /\ hist.cbLog = <<>>
    /\ heap.props["o"]["a"] = "v1" /\ watchers[1].value = "v0"

\* the step is the call w.update() by the loop of Dep.notify
NotifyCalls(w) ==
    /\ Ctx(Cur) = "notify"
    /\ Top(Cur).i <= Len(Top(Cur).snap)
    /\ Top(Cur).snap[Top(Cur).i] = w

\* the step enters the getter of w, get() being called by k ("ctor", "run",
\* "evaluate")
GetterCalled(w, k) ==
    /\ Len(frames') = Len(frames) + 1
    /\ frames'[Len(frames')].k = "get"
    /\ frames'[Len(frames')].w = w
    /\ frames'[Len(frames')].cont = k

\* C20: update() of a lazy watcher sets dirty and calls no getter; of a
\* sync watcher that is not lazy it calls run() at once, inside notify, and
\* queues nothing; of any other watcher it hands the watcher to the
\* scheduler and calls no getter, and run() calls the getter of such a
\* watcher in the flush only.  A watcher both lazy and sync is treated as
\* lazy
C20_UpdateDispatch ==
    [][\A w \in WIds :
        /\ (NotifyCalls(w) /\ watchers[w].lazy) =>
              /\ watchers' = [watchers EXCEPT ![w].dirty = TRUE]
              /\ Len(frames') = Len(frames)
              /\ UNCHANGED <<sched, subs, target, targetStack>>
        /\ (NotifyCalls(w) /\ ~watchers[w].lazy /\ watchers[w].sync) =>
              /\ GetterCalled(w, "run")
              /\ target' = w
              /\ UNCHANGED <<sched, watchers>>
        /\ (NotifyCalls(w) /\ ~watchers[w].lazy /\ ~watchers[w].sync) =>
              /\ w \in sched'.has
              /\ w \in SeqToSet(sched'.queue)
              /\ sched'.waiting
              /\ Len(frames') = Len(frames)
              /\ UNCHANGED <<watchers, subs, target, targetStack>>
        /\ (w \in Ws(Cur) /\ GetterCalled(w, "run")) =>
              /\ ~watchers[w].lazy
              /\ IF watchers[w].sync THEN NotifyCalls(w)
                                     ELSE Ctx(Cur) = "flush"]_vars

\* watcher 1, lazy and sync, was evaluated, o.a was written, and the pass
\* of notify has called its update(): it is dirty, nothing runs and nothing
\* is queued
C20_Witness ==
    /\ Ctx(Cur) = "notify" /\ Len(frames) = 1
    /\ Top(Cur).called = <<1>>
    /\ watchers[1].lazy /\ watchers[1].sync /\ watchers[1].dirty
    /\ watchers[1].value = "v0" /\ heap.props["o"]["a"] = "v1"
    /\ sched.queue = <<>>

\* the step constructs the lazy watcher c
LazyCreated(c) == uid = c - 1 /\ uid' = c /\ watchers'[c].lazy

\* the step ends the evaluation of the lazy watcher c, by return or by throw
EvaluationEnds(c) ==
    /\ GetCompletes
    /\ Top(Cur).w = c
    /\ Top(Cur).cont = "evaluate"

\* what C21 says of construction and of a read: a lazy watcher is created
\* dirty and its getter is not called; a read calls the getter if and only
\* if the watcher is dirty; dirty becomes true by update() alone
LazyReads(c) ==
    /\ LazyCreated(c) =>
          /\ watchers'[c].dirty
          /\ watchers'[c].value = Undef
          /\ frames' = frames
    /\ UserReadComputed(c, MaxReads) =>
          (GetterCalled(c, "evaluate") <=> watchers[c].dirty)
    /\ (c \in Ws(Cur) /\ watchers[c].lazy /\ ~watchers[c].dirty
           /\ watchers'[c].dirty) => NotifyCalls(c)

\* C21: a lazy watcher is created dirty and is not evaluated then; a read
\* of the computed property calls the getter only if dirty is true, and
\* dirty is false once the call is over, so that the getter is not called
\* again before update() is called (no two calls without a notification
\* between them), and after a notification the watcher is dirty until the
\* next read, which recomputes
C21_LazyCaching ==
    [][\A c \in WIds :
        /\ LazyReads(c)
        /\ EvaluationEnds(c) => ~watchers'[c].dirty
        /\ GetterCalled(c, "evaluate") => hist.lz[c] \in {"none", "upd"}
        /\ (hist'.lz[c] \in {"upd", "during", "lost"} /\ ~OnStack(Cur, c)) =>
              watchers'[c].dirty]_vars

\* C21 as the code has it: dirty is set to false when the getter returns; a
\* getter that throws leaves the watcher dirty and its value as it was, and
\* the next read calls it again.  Between two notifications the getter
\* returns at most once.  After a notification that arrives when the getter
\* is not running the watcher is dirty until the next read, which
\* recomputes; a notification that arrives while the getter runs is
\* forgotten when the getter returns (dirty is false, the next read does not
\* recompute)
C21_LazyCachingOnReturn ==
    [][\A c \in WIds :
        /\ LazyReads(c)
        /\ EvaluationEnds(c) =>
              IF hist'.lz[c] = "threw"
              THEN watchers'[c].dirty /\ watchers'[c].value = watchers[c].value
              ELSE ~watchers'[c].dirty /\ watchers'[c].value = Top(Cur).val
        /\ GetterCalled(c, "evaluate") =>
              hist.lz[c] \in {"none", "upd", "threw"}
        /\ hist'.lz[c] = "upd" => watchers'[c].dirty
        /\ hist'.lz[c] \in {"ret", "hit", "lost"} => ~watchers'[c].dirty]_vars

\* the computed property 1 was evaluated (it read o.a), o.a was written and
\* update() called once, and the next read has called the getter again,
\* which has returned the new value
C21_Witness ==
    /\ hist.lz[1] = "ret"
    /\ hist.upd[1] = 1
    /\ ~watchers[1].dirty
    /\ watchers[1].value = "v1"
    /\ frames = <<>>

\* the step is the return of the getter that run() of w called
RunReturns(w) ==
    /\ GetCompletes
    /\ Top(Cur).w = w
    /\ Top(Cur).cont = "run"

\* C22: when the getter called by run() of an active watcher has returned,
\* the callback is invoked if and only if the new value is not === the
\* stored one (NaN is never === NaN), or is an object or an array, or the
\* watcher is deep; then the value is stored and the callback receives (new
\* value, previous value); otherwise the stored value stays and no callback
\* is invoked
C22_ComparisonPolicy ==
    [][\A w \in WIds :
        RunReturns(w) =>
            LET new == Top(Cur).val
                old == watchers[w].value
            IN  IF \/ ~(new = old /\ new # "NaN")
                   \/ new \in Objs
                   \/ watchers[w].deep
                THEN /\ hist'.cbLog = Append(hist.cbLog, <<w, new, old>>)
                     /\ watchers'[w].value = new
                     /\ Len(frames') = Len(frames)
                     /\ frames'[Len(frames')].k = "cb"
                     /\ frames'[Len(frames')].w = w
                ELSE /\ hist'.cbLog = hist.cbLog
                     /\ watchers'[w].value = old
                     /\ Len(frames') = Len(frames) - 1]_vars

\* the flush has re-evaluated watcher 1, which is not deep, after o.a was
\* written: its getter returned the primitive it had stored and no callback
\* was invoked
C22_Witness ==
    /\ Ctx(Cur) = "flush" /\ frames = <<>>
    /\ hist.runOrder = <<1>>
    /\ watchers[1].active /\ ~watchers[1].deep
    /\ hist.cbLog = <<>>
    /\ heap.props["o"]["a"] = "v1"
    /\ watchers[1].value = "v0"

\* the step is a call of notify() on the Dep d
NotifyBegins(d) ==
    /\ Len(frames') = Len(frames) + 1
    /\ frames'[Len(frames')].k = "notify"
    /\ frames'[Len(frames')].dep = d

\* t holds the elements of s, each once, in ascending order
AscendingOf(s, t) ==
    /\ Len(t) = Len(s)
    /\ SeqToSet(t) = SeqToSet(s)
    /\ \A i \in 1..Len(t), j \in 1..Len(t) : i < j => t[i] < t[j]

\* update() has been called on the first elements of the copy, in its order
CalledInOrder ==
    \A i \in 1..Len(frames) :
        frames[i].k = "notify" => IsPrefix(frames[i].called, frames[i].snap)

InsertedArgs(method, args) ==
    IF method \in {"push", "unshift"} THEN SeqToSet(args)
    ELSE IF method = "splice" THEN {args[i] : i \in 3..Len(args)}
    ELSE {}

\* C24: a call of push, pop, shift, unshift, splice, sort or reverse on an
\* observed array applies the original method, runs observe on every
\* element inserted, notifies the Dep of the array's Observer once, whether
\* the call changed the array or not, and returns what the original method
\* returned
C24_ArrayMutators ==
    [][\A i \in 1..Len(ArrayCalls) :
        LET method == ArrayCalls[i].method
            args   == ArrayCalls[i].args
        IN  UserArrayCall({"top"}, "arr", method, args, MaxOps, MaxLen) =>
              /\ heap'.items["arr"] = Original(method, heap.items["arr"], args)
              /\ \A x \in InsertedArgs(method, args) \cap Objs :
                    heap'.ob[x].dep # NoDep
              /\ NotifyBegins(heap.ob["arr"].dep)
              /\ frames'[Len(frames')].snap = subs[heap.ob["arr"].dep]
              /\ frames'[Len(frames')].i = 1
              /\ hist'.res = OriginalResult("arr", method,
                                            heap.items["arr"], args)]_vars

\* pop() on the empty array, which changes nothing, has returned undefined
\* and started a pass of notify over the watcher that read o.a
C24_Witness ==
    /\ heap.items["arr"] = <<>>
    /\ hist.res = <<"element", Undef>>
    /\ hist.ops = 1
    /\ Len(frames) = 1 /\ Top(Cur).k = "notify"
    /\ Top(Cur).dep = heap.ob["arr"].dep
    /\ Top(Cur).snap = <<1>>

\* one pass of notify is started on the Dep d, over its subscribers
NotifiesOnce(d) ==
    /\ NotifyBegins(d)
    /\ frames'[Len(frames')].snap = subs[d]
    /\ frames'[Len(frames')].i = 1

\* C25: on the observed array, set(arr, i, v) and del(arr, i) each notify
\* the Dep of the array's Observer once; after set arr[i] is v, the length
\* is max(old length, i + 1) and no other element has changed; after del
\* the element at i is gone and the later ones are one place down.  On the
\* object p, set of a key p has is the assignment p[key] = v through the
\* reactive setter, and del of an own key deletes it and notifies the Dep of
\* p's Observer once
C25_SetDel ==
    [][LET its == heap.items["arr"]
           new == heap'.items["arr"]
           n   == Len(its)
       IN  /\ \A i \in Indices, v \in {"v0", "v1"} :
                 UserSetIndex("arr", i, v, MaxOps) =>
                   /\ NotifiesOnce(heap.ob["arr"].dep)
                   /\ Len(new) = (IF n > i + 1 THEN n ELSE i + 1)
                   /\ new[i + 1] = v
                   /\ \A j \in 1..Len(new) :
                         j # i + 1 => new[j] = (IF j <= n THEN its[j] ELSE Undef)
           /\ \A i \in Indices :
                 UserDel("arr", i, MaxOps) =>
                   /\ NotifiesOnce(heap.ob["arr"].dep)
                   /\ Len(new) = (IF i < n THEN n - 1 ELSE n)
                   /\ \A j \in 1..Len(new) :
                         new[j] = (IF j <= i THEN its[j] ELSE its[j + 1])
           /\ \A v \in {"v0", "v1"} :
                 (hasOwn(Cur, "p", "k") /\ UserSet({"top"}, "p", "k", v, MaxOps)) =>
                   /\ UserAssign({"top"}, "p", "k", v, MaxOps)
                   /\ heap'.props["p"]["k"] = v
                   /\ IF heap.props["p"]["k"] = v
                      THEN frames' = frames
                      ELSE NotifiesOnce(heap.rdep["p"]["k"])
           /\ (UserDel("p", "k", MaxOps) /\ hasOwn(Cur, "p", "k")) =>
                   /\ ~hasOwn([heap |-> heap'], "p", "k")
                   /\ NotifiesOnce(heap.ob["p"].dep)]_vars

\* set(arr, 2, 'v1') on the empty array: the array is [undefined,
\* undefined, 'v1'] and the pass of notify over the watcher that read o.a
\* has started
C25_Witness ==
    /\ heap.items["arr"] = <<Undef, Undef, "v1">>
    /\ hist.ops = 1
    /\ Len(frames) = 1 /\ Top(Cur).k = "notify"
    /\ Top(Cur).dep = heap.ob["arr"].dep
    /\ Top(Cur).snap = <<1>>

-----------------------------------------------------------------------------
(* patch: the removal and the replacement of a tree                         *)

RECURSIVE TreeNodes(_)

\* the nodes of a tree: the node and the nodes of its children
TreeNodes(n) ==
    {n} \cup UNION {TreeNodes(n.children.items[i]) :
                        i \in 1..Len(n.children.items)}

\* the positions of the entry e in a log
Positions(log, e) == {j \in 1..Len(log) : log[j] = e}

\* patch(oldVnode, undefined) has returned
RemovalReturned ==
    /\ vdom.pc = "returned"
    /\ ~vdom.new0.def
    /\ vdom.oldVnode.def

\* the destroy hooks have run over the tree of oldVnode: once for each node
\* with data (data.hook.destroy, then the destroy callbacks of the
\* modules), never for a node without data, a node before its children, and
\* nothing else was called
DestroyedRecursively ==
    LET log == vdom.log
        nodes == TreeNodes(vdom.oldVnode)
    IN  /\ \A n \in nodes :
              /\ Cardinality(Positions(log, <<"cbs.destroy", n.id, 0>>))
                    = (IF n.data.def THEN 1 ELSE 0)
              /\ Cardinality(Positions(log, <<"hook.destroy", n.id, 0>>))
                    = (IF n.data.def /\ n.data.hook THEN 1 ELSE 0)
              /\ \A j \in Positions(log, <<"hook.destroy", n.id, 0>>) :
                    log[j + 1] = <<"cbs.destroy", n.id, 0>>
              /\ \A i \in 1..Len(n.children.items) :
                    \A j \in Positions(log, <<"cbs.destroy", n.id, 0>>),
                       k \in Positions(log, <<"cbs.destroy",
                                              n.children.items[i].id, 0>>) :
                        j < k
        /\ \A j \in 1..Len(log) :
              /\ log[j][1] \in {"cbs.destroy", "hook.destroy"}
              /\ \E n \in nodes : log[j][2] = n.id

\* C26 (as stated): when patch is called with an old node and no new node,
\* the destroy hooks are run over the old node and all its descendants and
\* the element of the old node is detached from its parent.
C26_DestroyAndDetach ==
    RemovalReturned =>
       /\ DestroyedRecursively
       /\ DomIndex(vdom.pdom, vdom.oldVnode.elm) = 0

\* C26 (amended): when patch is called with an old node and no new node, the
\* destroy hooks are run over the old node and all its descendants (for
\* each node that has data, parent before children) and nothing else is
\* done: no operation of the backend is called and the element of the old
\* node stays where it is among the children of its parent.
C26_DestroyOnly ==
    RemovalReturned =>
       /\ DestroyedRecursively
       /\ vdom.pdom = vdom.pdom0
       /\ vdom.oldVnode.elm = OldElm
       /\ vdom.dom = [i \in 1..Len(vdom.oldVnode.children.items) |->
                         vdom.oldVnode.children.items[i].elm]

\* patch(<section><div><span/>a</div><p/></section>, undefined) with hooks
\* on section and p and data on div has called the five hooks; the section
\* is still between its two siblings
C26_Witness ==
    /\ RemovalReturned
    /\ vdom.oldVnode = OldSection(TreeData(TRUE), TreeData(FALSE), TreeData(TRUE))
    /\ vdom.log = << <<"hook.destroy", 1, 0>>, <<"cbs.destroy", 1, 0>>,
                     <<"cbs.destroy", 2, 0>>, <<"hook.destroy", 5, 0>>,
                     <<"cbs.destroy", 5, 0>> >>
    /\ vdom.pdom = <<12, OldElm, 11>>

\* patch replaces the old node by the new one
Replacing == vdom.pc \in {"ancestors", "returned"} /\ vdom.path = "replace"

\* the children of the parent with the element e put right after OldElm
AfterOld(dom, e) ==
    LET i == DomIndex(dom, OldElm)
    IN  SubSeq(dom, 1, i) \o <<e>> \o SubSeq(dom, i + 1, Len(dom))

\* the log entry is the insertion of the new element into the parent
IsInsertion(e) ==
    e[1] \in {"insertBefore", "appendChild"} /\ e[2] = vdom.vnode.elm

\* the log entry is a call made for an ancestor placeholder
IsAncestorCall(e) == \E i \in 1..Len(vdom.anc) : e[2] = vdom.anc[i].id

\* the log entry belongs to the removal of the old tree
IsRemoval(e) ==
    \/ e[1] = "removeChild"
    \/ /\ e[1] \in {"cbs.destroy", "hook.destroy"}
       /\ \E n \in TreeNodes(vdom.oldVnode) : e[2] = n.id

\* C29: when patch is called with an old and a new node that are not the
\* same node, the element of the new tree is created and put right after
\* the element of the old node among the children of the parent (before
\* its next sibling), then the elm of each ancestor placeholder is set to
\* the new element, nearest first, and only then the old tree is removed;
\* the parent always has the old or the new element as a child.
C29_ReplacementOrder ==
    Replacing =>
       LET e == vdom.vnode.elm
           log == vdom.log
       IN  /\ e = 50
           /\ log[1] \in {<<"createElement", e, 0>>, <<"createTextNode", e, 0>>,
                          <<"createComment", e, 0>>}
           /\ \A i \in 1..Len(vdom.anc) :
                 vdom.anc[i].elm = (IF i < vdom.ancIdx THEN e ELSE OldElm)
           /\ vdom.pc = "ancestors" =>
                 /\ \A j \in 1..Len(log) : ~IsRemoval(log[j])
                 /\ vdom.hasParent =>
                       /\ vdom.pdom = AfterOld(vdom.pdom0, e)
                       /\ \E j \in 1..Len(log) : IsInsertion(log[j])
           /\ vdom.pc = "returned" =>
                 /\ vdom.ancIdx = Len(vdom.anc) + 1
                 /\ vdom.hasParent =>
                       /\ vdom.pdom = remove(AfterOld(vdom.pdom0, e), OldElm)
                       /\ \E j \in 1..Len(log) :
                             log[j] = <<"removeChild", OldElm, 0>>
           /\ vdom.hasParent =>
                 DomIndex(vdom.pdom, OldElm) # 0 \/ DomIndex(vdom.pdom, e) # 0
           /\ \A j, k \in 1..Len(log) :
                 /\ (IsInsertion(log[j]) /\ IsAncestorCall(log[k])) => j < k
                 /\ (IsAncestorCall(log[j]) /\ IsRemoval(log[k])) => j < k
                 /\ (IsInsertion(log[j]) /\ IsRemoval(log[k])) => j < k
                 /\ (log[j][1] \in {"createElement", "createTextNode",
                                    "createComment"}
                        /\ IsInsertion(log[k])) => j < k

\* <div key=k1> between two siblings is being replaced by <ul><li>b</li></ul>
\* under two placeholders: the list is after the div, the nearest
\* placeholder has the new element and the other one still the old
C29_Witness ==
    /\ vdom.pc = "ancestors"
    /\ vdom.path = "replace"
    /\ vdom.oldVnode.tag = "div" /\ vdom.vnode.tag = "ul"
    /\ vdom.pdom = <<12, OldElm, 50, 11>>
    /\ vdom.ancIdx = 2
    /\ vdom.anc = << [id |-> 41, elm |-> 50], [id |-> 42, elm |-> OldElm] >>

-----------------------------------------------------------------------------
(* patchVnode: the static fast path, text and children                      *)

\* patchVnode has returned
VnodePatched == vdom.pc = "returned" /\ vdom.path \in {"same", "async", "static", "full"}

\* nothing was done but to set fields of the new node: no call of the
\* backend, no hook, the children of the element and of the new node as
\* they were
NothingPatched ==
    /\ vdom.log = <<>>
    /\ vdom.text = vdom.oldVnode.text
    /\ vdom.dom = [i \in 1..Len(vdom.oldVnode.children.items) |->
                      vdom.oldVnode.children.items[i].elm]
    /\ vdom.vnode.children.items = vdom.new0.children.items

\* the element and the component instance of the old node are those of the
\* new node
CarriedOver ==
    /\ vdom.vnode.elm = vdom.oldVnode.elm
    /\ vdom.vnode.componentInstance = vdom.oldVnode.componentInstance

\* the fast path was not taken: the node went through the hooks and the
\* reconciliation of text and children
FullyPatched ==
    /\ vdom.path = "full"
    /\ (vdom.vnode.data.def /\ isPatchable(vdom.vnode)) =>
          \E j \in 1..Len(vdom.log) :
              vdom.log[j] = <<"cbs.update", vdom.vnode.id, 0>>

\* C27 (as stated): when the old and the new node are static with the same
\* key and the new node is a clone or marked once, patchVnode carries over
\* elm and componentInstance and returns without any call of the backend,
\* without update hooks and without visiting the children; when the new
\* node is static and neither a clone nor marked once the fast path is not
\* taken.
C27_StaticFastPath ==
    VnodePatched =>
       LET old == vdom.oldVnode
           new == vdom.new0
       IN  /\ (/\ old.isStatic /\ new.isStatic /\ old.key = new.key
               /\ (new.isCloned \/ new.isOnce)) =>
                  CarriedOver /\ NothingPatched /\ vdom.path # "full"
           /\ (new.isStatic /\ ~new.isCloned /\ ~new.isOnce) =>
                  vdom.path # "static"

\* C27 (amended): when the old and the new node are two objects, the old
\* one is not the placeholder of an async component, both are static with
\* the same key, and the new node is a clone or marked once, or is cloned
\* by patchVnode itself because it has an element already and comes from a
\* children array, then patchVnode carries over elm and componentInstance
\* (to the clone, if it cloned) and returns without any call of the
\* backend, without hooks and without visiting the children; when the two
\* are two objects, the old one is no placeholder, and the new node is
\* static and not a clone, not marked once and not cloned by patchVnode,
\* the fast path is not taken.  For one and the same object patchVnode
\* returns at once; for an old placeholder it returns after hydrating the
\* new node or marking it a placeholder, and carries over elm only.
C27_StaticFastPathOfClones ==
    VnodePatched =>
       LET old == vdom.oldVnode
           new == vdom.new0
           cloned == new.elm # 0 /\ vdom.owner
       IN  /\ (/\ old.id # new.id /\ ~old.isAsyncPlaceholder
               /\ old.isStatic /\ new.isStatic /\ old.key = new.key
               /\ (new.isCloned \/ new.isOnce \/ cloned)) =>
                  /\ vdom.path = "static"
                  /\ CarriedOver /\ NothingPatched
                  /\ vdom.vnode.id = (IF cloned THEN CloneId ELSE new.id)
           /\ (/\ old.id # new.id /\ ~old.isAsyncPlaceholder
               /\ new.isStatic /\ ~new.isCloned /\ ~new.isOnce /\ ~cloned) =>
                  FullyPatched
           /\ old.id = new.id =>
                  vdom.path = "same" /\ vdom.vnode = new /\ NothingPatched
           /\ (old.id # new.id /\ old.isAsyncPlaceholder) =>
                  /\ vdom.path = "async"
                  /\ vdom.vnode.elm = old.elm
                  /\ IF isDef(Factories[new.asyncFactory].resolved)
                     THEN vdom.log = << <<"hydrate", new.id, 0>> >>
                     ELSE vdom.log = <<>> /\ vdom.vnode.isAsyncPlaceholder

\* a static <div key=s> with two children and the instance c1 was patched
\* with a fresh static <div key=s> marked once that has one other child:
\* the new node has the element and the instance, and nothing was called
C27_Witness ==
    /\ VnodePatched
    /\ vdom.path = "static"
    /\ vdom.new0.isOnce /\ ~vdom.new0.isCloned /\ vdom.new0.elm = 0
    /\ vdom.new0.componentInstance = Undef
    /\ vdom.oldVnode.componentInstance = "c1"
    /\ Len(vdom.oldVnode.children.items) = 2
    /\ Len(vdom.new0.children.items) = 1
    /\ vdom.vnode.componentInstance = "c1"
    /\ vdom.vnode.elm = OldElm
    /\ vdom.log = <<>>

\* the names of the operations of the backend
NodeOpNames ==
    {"createElement", "createTextNode", "createComment", "insertBefore",
     "appendChild", "removeChild", "setTextContent"}

\* the calls of the backend in a log
NodeOps(log) == SelectSeq(log, LAMBDA e : e[1] \in NodeOpNames)

\* the update hooks were called before any call of the backend
UpdateHooksFirst ==
    \A j, k \in 1..Len(vdom.log) :
       (vdom.log[j][1] \in {"cbs.update", "hook.update"}
           /\ vdom.log[k][1] \in NodeOpNames) => j < k

\* the calls and the children of the element after updateChildren(elm,
\* oldCh, ch)
DiffOf(oldCh, ch) == RunLoop(updateChildrenBegin(oldCh, ch))

\* the calls that create the leaves of ch with the elements from 50 on and
\* append them
AppendAll(ch) ==
    [j \in 1..(2 * Len(ch)) |->
        IF j % 2 = 1 THEN <<"createElement", 50 + (j - 1) \div 2, 0>>
        ELSE <<"appendChild", 50 + (j - 2) \div 2, 0>>]

\* the calls that remove the elements of oldCh in order
RemoveEach(oldCh) == [j \in 1..Len(oldCh) |-> <<"removeChild", oldCh[j].elm, 0>>]

\* the call that sets the text, if it is made
SetText(made) ==
    IF made THEN << <<"setTextContent", OldElm, 0>> >> ELSE <<>>

\* the four cases on the children lists, with the text set in the last one
\* when it differs
CasesByChildren(old, new, differs) ==
    LET oldCh == old.children
        ch == new.children
        ops == NodeOps(vdom.log)
    IN  IF oldCh.def /\ ch.def
        THEN IF oldCh.id = ch.id
             THEN ops = <<>> /\ vdom.dom = [i \in 1..Len(oldCh.items) |->
                                               oldCh.items[i].elm]
             ELSE /\ ops = DiffOf(oldCh.items, ch.items).ops
                  /\ vdom.dom = DiffOf(oldCh.items, ch.items).dom
                  /\ vdom.dom = [i \in 1..Len(ch.items) |->
                                    vdom.vnode.children.items[i].elm]
        ELSE IF ch.def
        THEN /\ ops = SetText(isDef(old.text)) \o AppendAll(ch.items)
             /\ vdom.dom = [i \in 1..Len(ch.items) |-> 49 + i]
             /\ isDef(old.text) => vdom.text = ""
        ELSE IF oldCh.def
        THEN ops = RemoveEach(oldCh.items) /\ vdom.dom = <<>>
        ELSE /\ ops = SetText(differs)
             /\ vdom.text = (IF differs
                             THEN (IF isDef(new.text) THEN new.text ELSE "")
                             ELSE old.text)

\* C28 (as stated): patchVnode, when it does not return early, takes
\* exactly one of the cases: both nodes have children, updateChildren
\* unless the two arrays are one; only the new node has children, the old
\* text is cleared and all new children are inserted; only the old node has
\* children, all of them are removed; neither has children, the text
\* content is set if and only if the text differs.  The update hooks are
\* called before.
C28_ChildCases ==
    (VnodePatched /\ vdom.path = "full") =>
       /\ UpdateHooksFirst
       /\ CasesByChildren(vdom.oldVnode, vdom.new0,
                          vdom.oldVnode.text # vdom.new0.text)

\* C28 (amended): patchVnode, when it does not return early, first calls
\* the update hooks and then, if the new node has text, sets the text
\* content of the element to it when it differs from the text of the old
\* node and does nothing else, whatever children the old node has; if the
\* new node has no text it takes exactly one of the cases: both nodes have
\* children, updateChildren unless the two arrays are one; only the new
\* node has children, the old text is cleared and all new children are
\* created and appended; only the old node has children, all of them are
\* removed; neither has children, the text content is cleared when the old
\* node has text.
C28_ChildCasesByText ==
    (VnodePatched /\ vdom.path = "full") =>
       LET old == vdom.oldVnode
           new == vdom.new0
       IN  /\ UpdateHooksFirst
           /\ IF isDef(new.text)
              THEN /\ NodeOps(vdom.log) = SetText(old.text # new.text)
                   /\ vdom.text = new.text
                   /\ vdom.dom = (IF old.text # new.text THEN <<>>
                                  ELSE [i \in 1..Len(old.children.items) |->
                                           old.children.items[i].elm])
              ELSE CasesByChildren(old, new, isDef(old.text))

\* <div> with the children k1, k2 and hooks was patched with a fresh <div>
\* with the children k2, k1 and hooks: prepatch, the update hooks, one
\* insertBefore that moves k1 to the end, postpatch
C28_Witness ==
    /\ VnodePatched
    /\ vdom.path = "full"
    /\ vdom.log = << <<"hook.prepatch", 20, 0>>, <<"cbs.update", 20, 0>>,
                     <<"hook.update", 20, 0>>, <<"insertBefore", 1, 0>>,
                     <<"hook.postpatch", 20, 0>> >>
    /\ vdom.dom = <<2, 1>>

-----------------------------------------------------------------------------
(* updateChildren: the loop ends, and what follows it                       *)

\* the number of entries between the start and the end indices
Remaining(v) == (v.oldEndIdx - v.oldStartIdx) + (v.newEndIdx - v.newStartIdx)

\* the loop of updateChildren is about to run an iteration
InLoop ==
    /\ vdom.pc = "loop"
    /\ vdom.oldStartIdx <= vdom.oldEndIdx
    /\ vdom.newStartIdx <= vdom.newEndIdx

\* the loop of updateChildren is over and the rest of the function runs
AfterLoop == vdom.pc = "loop" /\ ~InLoop

\* the elements of the old children from oldStartIdx to oldEndIdx that are
\* not undefined
LeftOld(v) ==
    {v.oldCh[i].elm : i \in {j \in v.oldStartIdx..v.oldEndIdx : v.oldCh[j].def}}

\* the calls that create the elements from e on for the new children from
\* index i to newEndIdx and insert each before ref, or append it
CreateEach(v, i, e, ref) ==
    [j \in 1..(2 * (v.newEndIdx - i + 1)) |->
        IF j % 2 = 1 THEN <<"createElement", e + (j - 1) \div 2, 0>>
        ELSE IF ref # 0 THEN <<"insertBefore", e + (j - 2) \div 2, ref>>
        ELSE <<"appendChild", e + (j - 2) \div 2, 0>>]

-----------------------------------------------------------------------------
\* the nodes of the store before the call that carry an element
Carried == {id \in 1..Len(vdom.h0.nodes) : vdom.h0.nodes[id].elm # 0}

\* the clone and the node it was made of agree on the copied fields
ShallowCopy(c, v) ==
    /\ c.tag = v.tag
    /\ c.data = v.data
    /\ c.text = v.text
    /\ c.elm = v.elm
    /\ c.key = v.key
    /\ c.isStatic = v.isStatic
    /\ c.isComment = v.isComment
    /\ c.ns = v.ns
    /\ c.isCloned

\* C31: cloneVNode(v) returns a new node with the tag, data, text, elm, key,
\* isStatic, isComment and namespace of v and isCloned true; its children
\* array is another array with the same entries, and entries replaced in it
\* (createChildren of the clone) leave v and v.children as they were.  When
\* patchVnode has returned, every node that carried an element before the
\* call still carries that element, and no entry of the children array of
\* such a node is replaced by another node (an entry of an old array may be
\* set to undefined by the diff).
C31_CloneKeepsOriginal ==
    /\ vdom.pc \in {"cloned", "created"} =>
          LET v0 == vdom.h0.nodes[vdom.src]
              c == vdom.h.nodes[vdom.res]
          IN  /\ vdom.res # vdom.src
              /\ ShallowCopy(c, v0)
              /\ vdom.h.nodes[vdom.src] = v0
              /\ (v0.children = 0) = (c.children = 0)
              /\ v0.children # 0 =>
                    /\ c.children # v0.children
                    /\ vdom.h.arrays[v0.children] = vdom.h0.arrays[v0.children]
                    /\ vdom.pc = "cloned" =>
                          vdom.h.arrays[c.children] = vdom.h0.arrays[v0.children]
    /\ vdom.pc \in {"created", "patched"} =>
          \A id \in Carried :
              /\ vdom.h.nodes[id].elm = vdom.h0.nodes[id].elm
              /\ LET a == vdom.h0.nodes[id].children
                 IN  a # 0 =>
                        \A i \in 1..Len(vdom.h0.arrays[a]) :
                            vdom.h.arrays[a][i] \in {vdom.h0.arrays[a][i], 0}

\* patchVnode(O, N) with O.children = [B] and N.children = [A] without keys:
\* A carries the element 11 and is cloned, the clone takes the element of B,
\* and the text child of A is cloned into the array of the clone
C31_Witness ==
    /\ vdom.pc = "patched"
    /\ vdom.h0.arrays[2] = <<NodeId.B>>
    /\ vdom.h0.arrays[4] = <<NodeId.A>>
    /\ vdom.h.arrays[4] = <<8>>
    /\ vdom.h.nodes[8].isCloned
    /\ vdom.h.nodes[8].elm = 12
    /\ vdom.h.nodes[NodeId.A].elm = 11
    /\ vdom.h.arrays[1] = <<NodeId.T>>
    /\ vdom.h.nodes[8].children = 5
    /\ vdom.h.arrays[5] = <<9>>
    /\ vdom.h.nodes[9].isCloned
    /\ vdom.h.nodes[NodeId.T].elm = 13

-----------------------------------------------------------------------------
\* the render function of the last call threw
RenderThrew == vdom.calls > 0 /\ vdom.r.kind = "throw"

\* the vnode id was made by createEmptyVNode() in the last call
FreshComment(id) ==
    /\ id \in vdom.first..Len(vdom.nodes)
    /\ vdom.nodes[id].isComment

\* the last call returned the previous root, or a new comment when there
\* was none
PreviousOrEmpty ==
    IF vdom.prev # 0 THEN vdom.returned = vdom.prev
    ELSE FreshComment(vdom.returned)

\* the last call returned what val is after lines 556-570: the vnode, the
\* only entry of the array, or a new comment
Normalised(val) ==
    IF val.kind = "vnode" \/ (val.kind = "array" /\ val.ids = <<1>>)
    THEN vdom.returned = vdom.first /\ ~vdom.nodes[vdom.returned].isComment
    ELSE FreshComment(vdom.returned)

\* the last call returned one vnode of the instance under the placeholder
ReturnedOne ==
    /\ ~vdom.unwinding
    /\ vdom.returned \in 1..Len(vdom.nodes)
    /\ vdom.nodes[vdom.returned].parent = vdom._parentVnode
    /\ vdom.currentRenderingInstance = 0

\* C32 as stated: when the render function throws, _render reports the
\* error and returns the previous root if there is one, else a new empty
\* comment; _render always returns one VNode whose parent is the placeholder.
C32_RenderContained ==
    vdom.calls > 0 =>
        /\ ReturnedOne
        /\ RenderThrew => vdom.reported # <<>> /\ PreviousOrEmpty

\* C32, with the option renderError and the handler: _render leaves by an
\* error exactly when the render function throws and no error handler is
\* registered; _update is then not called and _vnode stays.  Otherwise it
\* returns one VNode whose parent is the placeholder, which _update patches:
\* what the render function gave (the vnode, the only entry of an array, or
\* a new comment for anything else); when the render function threw, outside
\* production with the option renderError what renderError gave, and in
\* every other case, also when renderError threw, the previous root or a new
\* comment when there is none.  Every error caught is reported.
C32_RenderContainedOrRenderError ==
    vdom.calls > 0 =>
        /\ vdom.unwinding = (RenderThrew /\ ~vdom.errorHandler)
        /\ vdom.unwinding =>
              /\ vdom.returned = 0
              /\ vdom._vnode = vdom.prev
              /\ vdom.patched = <<0, 0>>
              /\ vdom.currentRenderingInstance = 0
        /\ ~vdom.unwinding =>
              /\ ReturnedOne
              /\ vdom._vnode = vdom.returned
              /\ vdom.patched = <<vdom.prev, vdom.returned>>
              /\ IF ~RenderThrew
                 THEN vdom.reported = <<>> /\ Normalised(vdom.r)
                 ELSE IF ~vdom.production /\ vdom.renderError
                 THEN IF vdom.re.kind # "throw"
                      THEN /\ vdom.reported = <<"render">>
                           /\ Normalised(vdom.re)
                      ELSE /\ vdom.reported = <<"render", "renderError">>
                           /\ PreviousOrEmpty
                 ELSE vdom.reported = <<"render">> /\ PreviousOrEmpty

\* the second render throws with a handler registered and no renderError:
\* the error is reported and the root of the first render is returned and
\* patched against itself
C32_Witness ==
    /\ vdom.calls = 2
    /\ RenderThrew
    /\ ~vdom.renderError
    /\ vdom.prev = 1
    /\ vdom.returned = 1
    /\ vdom.reported = <<"render">>
    /\ vdom.patched = <<1, 1>>
    /\ vdom._parentVnode = 40
    /\ vdom.nodes[1].parent = 40


\* the frames under the topmost one
Below(fs) == SubSeq(fs, 1, Len(fs) - 1)

\* a notification pass is under way and the getter or the callback that
\* one of its subscribers' run() called is running
InPass ==
    /\ Len(frames) >= 2
    /\ frames[Len(frames) - 1].k = "notify"
    /\ \/ Top(Cur).k = "cb"
       \/ Top(Cur).k = "get" /\ Top(Cur).cont = "run"

VisitsOf(x) == Cardinality({j \in 1..Len(vdom.visits) : vdom.visits[j] = x})

\* C34: a deep traversal returns on every graph, cycles and shared objects
\* included (it is never left by the RangeError of an unbounded recursion),
\* it enters the loop of an observed container at most once, and between
\* two traversals seenObjects is empty
C34_TraversalTerminates ==
    /\ ~vdom.overflow
    /\ \A x \in Objs : hasOb(Cur, x) => VisitsOf(x) <= 1
    /\ vdom.pc = "idle" => vdom.seen = {}


\* the entries s2 has after those of s1
Added(s1, s2) == SubSeq(s2, Len(s1) + 1, Len(s2))

\* the iteration of the loop that comes next takes the last branch (the key
\* map): both ends of the old list are defined and none of the four
\* comparisons of the ends holds
TakesKeyBranch(v) ==
    /\ v.pc = "loop"
    /\ v.oldStartIdx <= v.oldEndIdx /\ v.newStartIdx <= v.newEndIdx
    /\ v.oldStartVnode.def /\ v.oldEndVnode.def
    /\ ~sameVnode(v.oldStartVnode, v.newStartVnode)
    /\ ~sameVnode(v.oldEndVnode, v.newEndVnode)
    /\ ~sameVnode(v.oldStartVnode, v.newEndVnode)
    /\ ~sameVnode(v.oldEndVnode, v.newStartVnode)

\* the old children between the ends that are the same vnode as newStartVnode
MatchedInOld(v) ==
    {i \in v.oldStartIdx..v.oldEndIdx :
        v.oldCh[i].def /\ sameVnode(v.oldCh[i], v.newStartVnode)}

\* C35: with unique keys in each list, no element is the elm of two new
\* children and no old child is patched twice; an old child found through
\* the key map is patched, set to undefined in oldCh and its element moved
\* to just before the element of oldStartVnode, and nothing else sets an
\* entry of oldCh to undefined; the element of an entry that is undefined is
\* never patched, moved or removed afterwards
C35_ReusedOnce ==
    [][(vdom.pc = "loop" /\ UniqueKeys(vdom.old0) /\ UniqueKeys(vdom.new0)) =>
          LET v      == vdom
              w      == vdom'
              newOps == Added(v.ops, w.ops)
              newPat == Added(v.patched, w.patched)
          IN  /\ \A i, j \in 1..Len(w.newCh) :
                    (i # j /\ w.newCh[i].elm # 0) =>
                        w.newCh[i].elm # w.newCh[j].elm
              /\ \A n, m \in 1..Len(w.patched) :
                    n # m => w.patched[n][1] # w.patched[m][1]
              /\ TakesKeyBranch(v) =>
                    \A i \in MatchedInOld(v) :
                       /\ ~w.oldCh[i].def
                       /\ newPat = <<<<i, v.newStartIdx>>>>
                       /\ newOps = <<<<"insertBefore", i, v.oldStartVnode.elm>>>>
                       /\ DomIndex(w.dom, i) + 1 =
                              DomIndex(w.dom, v.oldStartVnode.elm)
              /\ \A i \in 1..Len(v.oldCh) :
                    (v.oldCh[i].def /\ ~w.oldCh[i].def) =>
                        TakesKeyBranch(v) /\ i \in MatchedInOld(v)
              /\ \A i \in 1..Len(v.oldCh) :
                    ~v.oldCh[i].def =>
                       /\ ~w.oldCh[i].def
                       /\ \A n \in 1..Len(newPat) : newPat[n][1] # i
                       /\ \A n \in 1..Len(newOps) :
                             newOps[n][1] \in {"insertBefore", "removeChild"}
                                 => newOps[n][2] # i]_vars

\* old [k1, k2, k3] and new [k2, <span k1>]: the old child k2 was found
\* through the key map and moved before the element of k1; removeVnodes ran
\* over the three old entries and removed the elements of k1 and k3 only
C35_Witness ==
    /\ vdom.pc = "done"
    /\ Len(vdom.old0) = 3 /\ UniqueKeys(vdom.old0) /\ UniqueKeys(vdom.new0)
    /\ ~vdom.oldCh[2].def
    /\ vdom.oldStartIdx = 1 /\ vdom.oldEndIdx = 3
    /\ vdom.patched = <<<<2, 1>>>>
    /\ vdom.dom = <<2, 4>>
    /\ <<"removeChild", 1, 0>> \in SeqToSet(vdom.ops)
    /\ <<"removeChild", 3, 0>> \in SeqToSet(vdom.ops)


\* C36: with unique keys in each list (canMove true), when updateChildren
\* is done the children of the parent element are the elements of the new
\* children in the order of newCh, every new child has an element, the
\* element of an old child that is the same vnode as no new child is not
\* among them, and no error was raised
C36_DiffPostcondition ==
    (vdom.pc \in {"done", "TypeError"}
        /\ UniqueKeys(vdom.old0) /\ UniqueKeys(vdom.new0)) =>
       /\ vdom.pc = "done"
       /\ vdom.dom = [j \in 1..Len(vdom.newCh) |-> vdom.newCh[j].elm]
       /\ \A j \in 1..Len(vdom.newCh) : vdom.newCh[j].elm # 0
       /\ \A i \in 1..Len(vdom.old0) :
             (\A j \in 1..Len(vdom.new0) :
                 ~sameVnode(vdom.old0[i], vdom.new0[j])) =>
                DomIndex(vdom.dom, i) = 0

\* old [k1, k2, k3] and new [k3, <span k1>, k2]: the element of k3 was
\* moved to the front, an element created for the span, the element of k2
\* kept and the element of the old k1 removed
C36_Witness ==
    /\ vdom.pc = "done"
    /\ Len(vdom.old0) = 3 /\ Len(vdom.new0) = 3
    /\ UniqueKeys(vdom.old0) /\ UniqueKeys(vdom.new0)
    /\ vdom.new0[2].tag = "span"
    /\ vdom.dom = <<3, 4, 2>>
    /\ [j \in 1..3 |-> vdom.newCh[j].elm] = <<3, 4, 2>>


\* the Dep of the property o.a
DepOfA == heap.rdep["o"]["a"]

\* the getter of the computed watcher c has read o.a and o.a has been
\* written since: the cached value is not the value of o.a
StaleCache(c) ==
    /\ watchers[c].lazy
    /\ watchers[c].deps # <<>>
    /\ watchers[c].value # heap.props["o"]["a"]

\* the step ends a read of the computed property c made by the getter of
\* another watcher: the cached value is served, or evaluate() has returned
ComputedReadEnds(c) ==
    \/ /\ UserReadComputed(c, MaxReads)
       /\ Ctx(Cur) = "get" /\ ~watchers[c].dirty
    \/ /\ UserReturn
       /\ Ctx(Cur) = "get" /\ Top(Cur).w = c /\ Top(Cur).cont = "evaluate"
       /\ Len(frames) >= 2 /\ frames[Len(frames) - 1].k = "get"

\* C37: when the getter of a watcher W has read a computed property, W is a
\* subscriber of every Dep in the deps of the computed watcher; a pass of
\* notify on such a Dep calls update() on every subscriber of its snapshot,
\* which sets dirty of a computed watcher, queues a watcher and runs a sync
\* watcher; and no getter is ever served a cached value that is not the
\* value of the property the computed getter read
C37_ComputedPropagation ==
    [][/\ \A c \in Ws(Cur) :
             ComputedReadEnds(c) =>
                 \A i \in 1..Len(watchers'[c].deps) :
                    LET d == watchers'[c].deps[i]
                    IN  /\ d \in watchers'[target'].newDepIds
                        /\ target' \in SeqToSet(subs'[d])
       /\ (Ctx(Cur) = "notify" /\ Len(frames') < Len(frames)) =>
             Top(Cur).called = Top(Cur).snap
       /\ (Ctx(Cur) = "notify" /\ Top(Cur).i <= Len(Top(Cur).snap)) =>
             LET w == Top(Cur).snap[Top(Cur).i]
             IN  /\ watchers[w].lazy => watchers'[w].dirty
                 /\ (~watchers[w].lazy /\ ~watchers[w].sync) =>
                        w \in sched'.has
                 /\ (~watchers[w].lazy /\ watchers[w].sync) =>
                        frames'[Len(frames')].k = "get"
       /\ \A c \in Ws(Cur) :
             (UserReadComputed(c, MaxReads) /\ Ctx(Cur) = "get"
                 /\ ~watchers[c].dirty) => ~StaleCache(c)]_vars


RECURSIVE Recursed(_, _)

\* the nodes removeAndInvokeRemoveHook goes through from node k on: the node
\* and the roots nested in it for as long as they have data
Recursed(chain, k) ==
    IF k < Len(chain) /\ chain[k + 1].data
    THEN 1 + Recursed(chain, k + 1) ELSE 1

\* the listeners of a removal: the remove hooks of the modules and the
\* node's own hook or the default call, for every node gone through
Listeners == (vdom.nMods + 1) * Recursed(vdom.chain, 1)

\* C38: when a node with data is removed rm.listeners is the number of
\* listeners registered less the calls of rm, it is never negative and is
\* zero only when every listener of the node and of the nested roots has
\* called rm; removeNode is called once, then and not before, and the
\* element is detached once if it had a parent
C38_RemovalCounting ==
    (vdom.pc \in {"run", "returned"} /\ vdom.chain[1].data) =>
       /\ vdom.listeners = vdom.registered - vdom.called
       /\ vdom.listeners >= 0
       /\ vdom.removeNodes <= 1 /\ vdom.removeChilds <= 1
       /\ (vdom.registered > 0 /\ vdom.listeners = 0) =>
             /\ vdom.called = Listeners
             /\ vdom.owed = 0 /\ vdom.events = <<>>
       /\ vdom.removeNodes = 1 <=>
             (vdom.registered > 0 /\ vdom.listeners = 0)
       /\ vdom.removeChilds = 1 <=> (vdom.removeNodes = 1 /\ vdom.was)
       /\ (vdom.pc = "returned" /\ vdom.owed = 0) => vdom.removeNodes = 1

\* a node with data whose component root has data and a remove hook, with
\* two module hooks: six listeners; the hooks of the root kept rm and the
\* last of them has now called it, after the function returned, and the
\* element was detached
C38_Witness ==
    /\ vdom.pc = "returned"
    /\ Len(vdom.chain) = 2 /\ vdom.chain[1].data /\ vdom.chain[2].data
    /\ vdom.chain[2].hook /\ vdom.nMods = 2
    /\ vdom.registered = 6 /\ vdom.called = 6 /\ vdom.listeners = 0
    /\ vdom.was /\ vdom.removeChilds = 1


\* C39: store._committing is true exactly while a call of _withCommit is
\* under way, also after a handler has thrown: outside a commit it is
\* false, so that a direct write of the state fails the assertion of strict
\* mode; the subscribers of a mutation are called with the flag restored to
\* what it was before the commit (false, or true for a commit made by a
\* handler)
C39_CommitFlag ==
    /\ vdom.committing <=> vdom.stack # <<>>
    /\ vdom.asserted # "passed"
    /\ \A n \in 1..Len(vdom.subscribed) :
          vdom.subscribed[n][1] <=> vdom.subscribed[n][2] > 0


\* the position of key k in the sequence s, 0 if it is not in it
PosIn(s, k) ==
    IF \E n \in 1..Len(s) : s[n] = k
    THEN CHOOSE n \in 1..Len(s) : s[n] = k
    ELSE 0

\* C40: with max set, after cacheVNode keys has at most max entries; the
\* key cacheVNode evicts is the cached key whose last render is the oldest;
\* keys has no duplicates and holds exactly the keys whose cache entry is
\* not null; and the instance rendered last is never destroyed
C40_BoundedLru ==
    /\ (vdom.max # 0 /\ vdom.pending = 0) => Len(vdom.keys) <= vdom.max
    /\ \A n, m \in 1..Len(vdom.keys) : n # m => vdom.keys[n] # vdom.keys[m]
    /\ SeqToSet(vdom.keys) = {k \in CacheKeys : vdom.cache[k] # NoEntry}
    /\ vdom.current # NoVnode => vdom.current.inst \notin vdom.destroyed
    /\ (vdom.pending = 0 /\ vdom.evicted # "none") =>
          /\ PosIn(vdom.recency, vdom.evicted) # 0
          /\ \A k \in SeqToSet(vdom.keys) :
                PosIn(vdom.recency, vdom.evicted) < PosIn(vdom.recency, k)

====
